---- MODULE Spec2Model ----
(***************************************************************************)
(* The wallet service of insecure-wallet-app, in its two variants:         *)
(*   - the secure server (server-secure.js, listed in src/CONTRIBUTING.md  *)
(*     lines 322-814), and                                                  *)
(*   - the vulnerable server (src/server.js).                              *)
(* Both are Node/Express programs: one thread, every callback runs to      *)
(* completion, and a handler gives up control only at an `await`.  A       *)
(* request is therefore modelled as one action per synchronous segment:    *)
(* the middleware chain and the handler body up to the first await, and    *)
(* then one step per continuation (Resume).  Requests that arrive          *)
(* "concurrently" are requests whose segments interleave.                  *)
(*                                                                         *)
(* Units: time in milliseconds (Date.now()); money held by the secure      *)
(* variant as integer cents; a value of a request body as the JSON value   *)
(* it is (a string, a Number as its IEEE-754 double, an array, ...).       *)
(***************************************************************************)
EXTENDS Integers, Sequences, FiniteSets, TLC

VARIABLES
    users,              \* the users array: sequence of user records
    transactions,       \* the transactions array (the ledger)
    invalidatedTokens,  \* the Set of logged-out tokens (secure variant)
    rateLimitStore,     \* Map clientIP -> {attempts, resetTime} (secure variant)
    now,                \* Date.now(), milliseconds
    issued,             \* the logins answered so far: the token returned, and when
    inflight,           \* handlers suspended at an await, by slot
    last,               \* the response sent most recently, with the request it answers
    admitted            \* history: the requests of observed addresses that rateLimit let pass

vars == <<users, transactions, invalidatedTokens, rateLimitStore, now, issued,
          inflight, last, admitted>>

(***************************************************************************)
(* Bounds of the model.                                                    *)
(***************************************************************************)
MaxUsers == 4
MaxTx == 2
MaxInflight == 2

(***************************************************************************)
(* Program constants.                                                      *)
(***************************************************************************)
RATE_LIMIT_WINDOW == 900000
RATE_LIMIT_MAX_ATTEMPTS == 5
JWT_EXPIRATION_SECONDS == 3600
MaxTransferCents == 100000000
MaxBalanceCents == 1000000000
StartingBalanceCents == 100000
AdminBalanceCents == 1000000
MinUsernameLen == 3
MaxUsernameLen == 30
MinPasswordLen == 8
MsPerSecond == 1000

(***************************************************************************)
(* Strings are sequences of characters (UTF-16 code units), so that        *)
(* trimming, stripping, length tests and regular expressions are computed. *)
(* A character is written as a one-character string; a character that      *)
(* cannot be written that way is written by its code point, "U+2028".      *)
(***************************************************************************)
\* WhiteSpace and LineTerminator of ECMAScript: what trim(), \s and the
\* StrWhiteSpaceChar of parseFloat accept.
Whitespace == {" ", "\t", "\n", "\r", "\f", "U+000B", "U+00A0", "U+1680", "U+2000",
               "U+2001", "U+2002", "U+2003", "U+2004", "U+2005", "U+2006", "U+2007",
               "U+2008", "U+2009", "U+200A", "U+2028", "U+2029", "U+202F", "U+205F",
               "U+3000", "U+FEFF"}
\* The characters a `.` of a regular expression without the s flag refuses.
LineTerminators == {"\n", "\r", "U+2028", "U+2029"}
LowerCase == {"a", "b", "c", "d", "e", "f", "g", "h", "i", "j", "k", "l", "m", "n", "o",
              "p", "q", "r", "s", "t", "u", "v", "w", "x", "y", "z"}
UpperCase == {"A", "B", "C", "D", "E", "F", "G", "H", "I", "J", "K", "L", "M", "N", "O",
              "P", "Q", "R", "S", "T", "U", "V", "W", "X", "Y", "Z"}
Digits == {"0", "1", "2", "3", "4", "5", "6", "7", "8", "9"}

TrimStart(s) ==
    IF \A i \in 1..Len(s) : s[i] \in Whitespace THEN <<>>
    ELSE SubSeq(s, CHOOSE i \in 1..Len(s) :
                       s[i] \notin Whitespace /\ \A j \in 1..(i - 1) : s[j] \in Whitespace,
                Len(s))

TrimEnd(s) ==
    IF \A i \in 1..Len(s) : s[i] \in Whitespace THEN <<>>
    ELSE SubSeq(s, 1, CHOOSE i \in 1..Len(s) :
                          s[i] \notin Whitespace
                          /\ \A j \in (i + 1)..Len(s) : s[j] \in Whitespace)

IsNotAngle(c) == c \notin {"<", ">"}

DigitValue(c) ==
    CASE c = "0" -> 0 [] c = "1" -> 1 [] c = "2" -> 2 [] c = "3" -> 3 [] c = "4" -> 4
      [] c = "5" -> 5 [] c = "6" -> 6 [] c = "7" -> 7 [] c = "8" -> 8 [] c = "9" -> 9

(***************************************************************************)
(* Natural numbers beyond 32 bits, for the arithmetic of JavaScript        *)
(* Numbers: little-endian sequences of limbs in base 2^15, without high    *)
(* zero limbs (zero is the empty sequence).  The operators split their     *)
(* argument in halves, so that the depth of evaluation stays logarithmic.  *)
(***************************************************************************)
LimbBits == 15
Limb == 32768

BigNorm(a) ==
    IF \A i \in 1..Len(a) : a[i] = 0 THEN <<>>
    ELSE SubSeq(a, 1, CHOOSE i \in 1..Len(a) :
                          a[i] # 0 /\ \A j \in (i + 1)..Len(a) : a[j] = 0)

BigFromInt(n) ==
    BigNorm(<<n % Limb, (n \div Limb) % Limb, n \div (Limb * Limb)>>)

\* The value of a, which must be below 2^31.
BigToInt(a) ==
    (IF Len(a) >= 1 THEN a[1] ELSE 0) + (IF Len(a) >= 2 THEN Limb * a[2] ELSE 0)
    + (IF Len(a) >= 3 THEN Limb * Limb * a[3] ELSE 0)

\* a * k + c, for 0 < k <= Limb and 0 <= c < 2^30
BigMulAdd(a, k, c) ==
    LET RECURSIVE Step(_, _)
        Join(lo, hi) == [limbs |-> lo.limbs \o hi.limbs, carry |-> hi.carry]
        Halves(x, lo) ==
            IF lo.carry < 0 THEN lo
            ELSE Join(lo, Step(SubSeq(x, Len(x) \div 2 + 1, Len(x)), lo.carry))
        Step(x, cin) ==
            IF x = <<>> THEN [limbs |-> <<>>, carry |-> cin]
            ELSE IF Len(x) = 1
            THEN [limbs |-> <<(x[1] * k + cin) % Limb>>,
                  carry |-> (x[1] * k + cin) \div Limb]
            ELSE Halves(x, Step(SubSeq(x, 1, Len(x) \div 2), cin))
        Out(r) == r.limbs \o BigFromInt(r.carry)
    IN  Out(Step(a, c))

\* a + sign * b, for sign = 1, or sign = -1 and a >= b
BigAddSub(a, b, sign) ==
    LET at(x, i) == IF i <= Len(x) THEN x[i] ELSE 0
        RECURSIVE Step(_, _, _)
        One(x) == [limbs |-> <<(x + Limb) % Limb>>,
                   carry |-> IF x < 0 THEN 0 - 1 ELSE x \div Limb]
        Join(lo, hi) == [limbs |-> lo.limbs \o hi.limbs, carry |-> hi.carry]
        Halves(i, j, lo) ==
            IF lo.carry > 1 THEN lo ELSE Join(lo, Step((i + j) \div 2 + 1, j, lo.carry))
        Step(i, j, cin) ==
            IF i > j THEN [limbs |-> <<>>, carry |-> cin]
            ELSE IF i = j THEN One(at(a, i) + sign * at(b, i) + cin)
            ELSE Halves(i, j, Step(i, (i + j) \div 2, cin))
        Out(r) == BigNorm(r.limbs \o <<r.carry>>)
    IN  IF b = <<>> THEN a
        ELSE IF a = <<>> THEN b
        ELSE Out(Step(1, IF Len(a) > Len(b) THEN Len(a) ELSE Len(b), 0))

\* -1, 0 or 1 as a < b, a = b, a > b
BigCmp(a, b) ==
    IF Len(a) # Len(b) THEN (IF Len(a) < Len(b) THEN 0 - 1 ELSE 1)
    ELSE IF a = b THEN 0
    ELSE LET i == CHOOSE i \in 1..Len(a) :
                      a[i] # b[i] /\ \A j \in (i + 1)..Len(a) : a[j] = b[j]
         IN  IF a[i] < b[i] THEN 0 - 1 ELSE 1

\* The quotient and the remainder of a by k, for 0 < k <= Limb
BigDivMod(a, k) ==
    LET RECURSIVE Step(_, _)
        Join(hi, lo) == [q |-> lo.q \o hi.q, r |-> lo.r]
        Halves(x, hi) ==
            IF hi.r >= k THEN hi ELSE Join(hi, Step(SubSeq(x, 1, Len(x) \div 2), hi.r))
        Step(x, rin) ==
            IF x = <<>> THEN [q |-> <<>>, r |-> rin]
            ELSE IF Len(x) = 1
            THEN [q |-> <<(rin * Limb + x[1]) \div k>>, r |-> (rin * Limb + x[1]) % k]
            ELSE Halves(x, Step(SubSeq(x, Len(x) \div 2 + 1, Len(x)), rin))
        Out(d) == [q |-> BigNorm(d.q), r |-> d.r]
    IN  Out(Step(a, 0))

\* The number of bits of a
BigBitLen(a) ==
    IF a = <<>> THEN 0
    ELSE LimbBits * (Len(a) - 1)
         + (CHOOSE n \in 1..LimbBits : 2 ^ (n - 1) <= a[Len(a)] /\ a[Len(a)] < 2 ^ n)

\* a * 2^k and floor(a / 2^k), for k >= 0: limb by limb
BigShl(a, k) ==
    LET w == k \div LimbBits
        b == k % LimbBits
        at(j) == IF 1 <= j /\ j <= Len(a) THEN a[j] ELSE 0
    IN  BigNorm([i \in 1..(Len(a) + w + 1) |->
                    (at(i - w) % 2 ^ (LimbBits - b)) * 2 ^ b
                    + at(i - w - 1) \div 2 ^ (LimbBits - b)])
BigShr(a, k) ==
    LET w == k \div LimbBits
        b == k % LimbBits
        at(j) == IF j <= Len(a) THEN a[j] ELSE 0
    IN  BigNorm([i \in 1..(Len(a) - w) |->
                    at(i + w) \div 2 ^ b + (at(i + w + 1) % 2 ^ b) * 2 ^ (LimbBits - b)])
\* Bit k of a is set (bit 0 is the lowest); the k lowest bits of a are zero.
BigBit(a, k) ==
    k \div LimbBits < Len(a) /\ (a[k \div LimbBits + 1] \div 2 ^ (k % LimbBits)) % 2 = 1
BigLowZero(a, k) ==
    /\ \A i \in 1..(k \div LimbBits) : i > Len(a) \/ a[i] = 0
    /\ k \div LimbBits < Len(a) => a[k \div LimbBits + 1] % 2 ^ (k % LimbBits) = 0
BigOdd(a) == a # <<>> /\ a[1] % 2 = 1

\* a * 10^n
RECURSIVE BigTimesPow10(_, _)
BigTimesPow10(a, n) ==
    IF a = <<>> THEN a
    ELSE IF n <= 4 THEN BigMulAdd(a, 10 ^ n, 0)
    ELSE BigTimesPow10(BigTimesPow10(a, n \div 2), n - n \div 2)

\* floor(a / 10^n), and whether a remainder was left
RECURSIVE BigOverPow10(_, _, _)
BigOverPow10(a, n, inexact) ==
    LET Last(d) == [q |-> d.q, inexact |-> inexact \/ d.r # 0]
        Then(c) == BigOverPow10(c.q, n - n \div 2, c.inexact)
    IN  IF a = <<>> THEN [q |-> a, inexact |-> inexact]
        ELSE IF n <= 4 THEN Last(BigDivMod(a, 10 ^ n))
        ELSE Then(BigOverPow10(a, n \div 2, inexact))

(***************************************************************************)
(* The values of a request body, as JSON.parse delivers them: undefined    *)
(* (the key is absent), null, true, false, a string, a Number (NaN, an     *)
(* infinity, or finite), an array of values, or an object.  A finite       *)
(* Number is (-1)^neg * mant * 2^exp with mant odd and below 2^53 and      *)
(* exp >= -1074, or mant zero and exp 0: every IEEE-754 double has exactly *)
(* one such form, so equal Numbers are equal records.  Of an object the    *)
(* handlers read the property `length`, and the conversion to a string     *)
(* reads its own property `toString`: items keeps the two, each the value  *)
(* of the key (for length a Number), or undefined for an object without    *)
(* that key.                                                               *)
(***************************************************************************)
MantBits == 53
MinExp == 0 - 1074
MaxTop == 1024

Value(t, neg, mant, exp, chars) ==
    [t |-> t, neg |-> neg, mant |-> mant, exp |-> exp, chars |-> chars, items |-> <<>>]
Undefined == Value("undefined", FALSE, <<>>, 0, <<>>)
NaN == Value("nan", FALSE, <<>>, 0, <<>>)
Infinity == Value("inf", FALSE, <<>>, 0, <<>>)
Str(s) == Value("str", FALSE, <<>>, 0, s)
Zero(neg) == Value("num", neg, <<>>, 0, <<>>)
Null == Value("null", FALSE, <<>>, 0, <<>>)
True == Value("true", FALSE, <<>>, 0, <<>>)
False == Value("false", FALSE, <<>>, 0, <<>>)
Arr(items) == [Value("array", FALSE, <<>>, 0, <<>>) EXCEPT !.items = items]
Obj(length, toString) ==
    [Value("object", FALSE, <<>>, 0, <<>>) EXCEPT !.items = <<length, toString>>]

\* (-1)^neg * mant * 2^exp with the factors of two moved out of mant
Finite(neg, mant, exp) ==
    LET Shifted(k) == Value("num", neg, BigShr(mant, k), exp + k, <<>>)
        Twos(z) == LimbBits * (z - 1)
                   + (CHOOSE n \in 0..(LimbBits - 1) :
                          mant[z] % (2 ^ n) = 0 /\ mant[z] % (2 ^ (n + 1)) # 0)
    IN  IF mant = <<>> THEN Zero(neg)
        ELSE Shifted(Twos(CHOOSE i \in 1..Len(mant) :
                              mant[i] # 0 /\ \A j \in 1..(i - 1) : mant[j] = 0))

\* The number of low bits of n that a double of value about n * 2^e cannot
\* hold (none when <= 0): a double has 53 bits, and none below 2^-1074.
DroppedBits(n, e) ==
    IF BigBitLen(n) - MantBits > MinExp - e THEN BigBitLen(n) - MantBits ELSE MinExp - e

\* n without its s lowest bits (s > 0), rounded to nearest, ties to even: up
\* when the highest bit dropped is set and either a lower one is (or
\* `inexact`), or the bit kept last is.
NearestShr(n, s, inexact) ==
    LET q == BigShr(n, s)
    IN  IF BigBit(n, s - 1) /\ (inexact \/ ~BigLowZero(n, s - 1) \/ BigOdd(q))
        THEN BigAddSub(q, <<1>>, 1)
        ELSE q

\* The double nearest to n * 2^e, ties to even; `inexact` says that the
\* value to round lies strictly between n * 2^e and (n + 1) * 2^e.
RoundToDouble(neg, n, e, inexact) ==
    LET Pack(r, exp) ==
            IF BigBitLen(r) + exp > MaxTop THEN Value("inf", neg, <<>>, 0, <<>>)
            ELSE Finite(neg, r, exp)
    IN  Pack(IF DroppedBits(n, e) <= 0 THEN n
             ELSE NearestShr(n, DroppedBits(n, e), inexact),
             IF DroppedBits(n, e) <= 0 THEN e ELSE e + DroppedBits(n, e))

\* d * 10^p as q * 2^-k, q a natural number, with `inexact` when a remainder
\* was dropped; k is 0 for p >= 0, and else leaves q more than 56 bits.
ScaleBits(p) == IF p >= 0 THEN 0 ELSE IF p > 0 - 256 THEN 56 - 4 * p ELSE 1080
Scaled(d, p) ==
    IF p >= 0 THEN [q |-> BigTimesPow10(d, p), inexact |-> FALSE]
    ELSE BigOverPow10(BigShl(d, ScaleBits(p)), 0 - p, FALSE)

\* The double nearest to d * 10^p: the value of a decimal literal.
DecimalToDouble(neg, d, p) ==
    IF d = <<>> THEN Zero(neg)
    ELSE IF p > 310 THEN Value("inf", neg, <<>>, 0, <<>>)
    ELSE IF p < 0 /\ BigBitLen(d) \div 3 + p < 0 - 361 THEN Zero(neg)
    ELSE RoundToDouble(neg, Scaled(d, p).q, 0 - ScaleBits(p), Scaled(d, p).inexact)

\* The Number c/100 + m/1000 (m in 0..9), as JSON.parse reads its literal.
Num(c, m) ==
    DecimalToDouble(c < 0,
                    BigMulAdd(BigFromInt(IF c >= 0 THEN c
                                         ELSE IF m = 0 THEN 0 - c ELSE 0 - c - 1),
                              10, IF c >= 0 \/ m = 0 THEN m ELSE 10 - m),
                    0 - 3)

\* The whole Number k, for 0 <= k < 2^31.
Whole(k) == Finite(FALSE, BigFromInt(k), 0)

\* The value of a string of at most five digits
DigitsToInt(s) ==
    LET at(i) == IF i <= Len(s) THEN DigitValue(s[Len(s) - i + 1]) ELSE 0
    IN  at(1) + 10 * at(2) + 100 * at(3) + 1000 * at(4) + 10000 * at(5)

\* The value of a string of digits
RECURSIVE DigitsToBig(_)
DigitsToBig(s) ==
    IF Len(s) <= 5 THEN BigFromInt(DigitsToInt(s))
    ELSE BigAddSub(BigTimesPow10(DigitsToBig(SubSeq(s, 1, Len(s) \div 2)),
                                 Len(s) - Len(s) \div 2),
                   DigitsToBig(SubSeq(s, Len(s) \div 2 + 1, Len(s))), 1)

\* The length of the longest prefix of s made of characters of set.
PrefixLen(s, set) ==
    IF \A i \in 1..Len(s) : s[i] \in set THEN Len(s)
    ELSE (CHOOSE i \in 1..Len(s) :
              s[i] \notin set /\ \A j \in 1..(i - 1) : s[j] \in set) - 1

\* The value of the digits of an exponent.  With ten significant digits or
\* more it is held at ExponentCeiling: a request body has at most 10mb (and a
\* string of the engine fewer than 2^30 characters), so that the digits before
\* the exponent move the value by less than a factor 10^ExponentCeiling, and
\* the literal is Infinity or 0 either way.
ExponentCeiling == 1000000000
ExponentValue(s) ==
    IF Len(s) - PrefixLen(s, {"0"}) > 9 THEN ExponentCeiling
    ELSE BigToInt(DigitsToBig(SubSeq(s, PrefixLen(s, {"0"}) + 1, Len(s))))

\* The digits s begins with, and what follows them.
DigitPrefix(s) == SubSeq(s, 1, PrefixLen(s, Digits))
AfterDigits(s) == SubSeq(s, PrefixLen(s, Digits) + 1, Len(s))
\* For r what follows the first digits: the digits after its dot, if it
\* begins with one, and what follows those.
FractionDigits(r) == IF r # <<>> /\ Head(r) = "." THEN DigitPrefix(Tail(r)) ELSE <<>>
AfterFraction(r) == IF r # <<>> /\ Head(r) = "." THEN AfterDigits(Tail(r)) ELSE r
\* For r what follows the digits and the fraction: the value of its
\* ExponentPart e [+-] digits, 0 when it has none or one without digits.
ExponentPart(r) ==
    IF r = <<>> \/ Head(r) \notin {"e", "E"} THEN 0
    ELSE IF Len(r) >= 2 /\ r[2] = "-"
    THEN 0 - ExponentValue(DigitPrefix(SubSeq(r, 3, Len(r))))
    ELSE ExponentValue(DigitPrefix(SubSeq(r, IF Len(r) >= 2 /\ r[2] = "+" THEN 3 ELSE 2,
                                          Len(r))))
\* The value of int [. frac] followed by r, NaN when there is no digit.
DecimalValue(int, frac, r) ==
    IF int = <<>> /\ frac = <<>> THEN NaN
    ELSE DecimalToDouble(FALSE, DigitsToBig(int \o frac), ExponentPart(r) - Len(frac))

\* StrUnsignedDecimalLiteral (without Infinity): the value of the longest
\* prefix of s that is digits [. digits] [e [+-] digits] or . digits [...]
ParseUnsigned(s) ==
    DecimalValue(DigitPrefix(s), FractionDigits(AfterDigits(s)),
                 AfterFraction(AfterDigits(s)))

\* x * 100 for a finite Number x
Times100(x) == RoundToDouble(x.neg, BigMulAdd(x.mant, 100, 0), x.exp, FALSE)

\* Math.round(x) for a finite Number x with |x| < 2^30: floor(x + 0.5)
MathRound(x) ==
    LET Up(q, half) ==
            IF x.neg THEN 0 - (q + (IF half /\ x.exp < 0 - 1 THEN 1 ELSE 0))
            ELSE q + (IF half THEN 1 ELSE 0)
    IN  IF x.exp >= 0 THEN (IF x.neg THEN 0 - 1 ELSE 1) * BigToInt(BigShl(x.mant, x.exp))
        ELSE Up(BigToInt(BigShr(x.mant, 0 - x.exp)), BigBit(x.mant, 0 - x.exp - 1))

\* -1, 0 or 1 as |x| < |y|, |x| = |y|, |x| > |y|, for finite Numbers
MagCmp(x, y) ==
    LET Tops(tx, ty, e) ==
            IF tx # ty THEN (IF tx < ty THEN 0 - 1 ELSE 1)
            ELSE BigCmp(BigShl(x.mant, x.exp - e), BigShl(y.mant, y.exp - e))
    IN  IF x.mant = <<>> \/ y.mant = <<>>
        THEN (IF x.mant = y.mant THEN 0 ELSE IF x.mant = <<>> THEN 0 - 1 ELSE 1)
        ELSE Tops(BigBitLen(x.mant) + x.exp, BigBitLen(y.mant) + y.exp,
                  IF x.exp < y.exp THEN x.exp ELSE y.exp)

\* x < y for Numbers (false when either is NaN)
Less(x, y) ==
    LET Ordered(c) == IF x.neg THEN c = 1 ELSE c = 0 - 1
    IN  IF x.t = "nan" \/ y.t = "nan" THEN FALSE
        ELSE IF x.t = "inf" THEN x.neg /\ ~(y.t = "inf" /\ y.neg)
        ELSE IF y.t = "inf" THEN ~y.neg
        ELSE IF x.mant = <<>> /\ y.mant = <<>> THEN FALSE
        ELSE IF x.neg # y.neg THEN x.neg
        ELSE Ordered(MagCmp(x, y))

\* x + y for finite Numbers other than 0, of which the larger does not
\* absorb the other: mx * 2^e is |x| and my * 2^e is |y|.
PlusAligned(x, y, mx, my, e) ==
    LET c == BigCmp(mx, my)
    IN  IF x.neg # y.neg /\ c = 0 THEN Zero(FALSE)
        ELSE RoundToDouble(IF c >= 0 THEN x.neg ELSE y.neg,
                           BigAddSub(IF c >= 0 THEN mx ELSE my,
                                     IF c >= 0 THEN my ELSE mx,
                                     IF x.neg = y.neg THEN 1 ELSE 0 - 1),
                           e, FALSE)

\* x + y for Numbers
Plus(x, y) ==
    LET e == IF x.exp < y.exp THEN x.exp ELSE y.exp
        tops == (BigBitLen(x.mant) + x.exp) - (BigBitLen(y.mant) + y.exp)
    IN  IF x.t = "nan" \/ y.t = "nan" THEN NaN
        ELSE IF x.t = "inf" THEN (IF y.t = "inf" /\ y.neg # x.neg THEN NaN ELSE x)
        ELSE IF y.t = "inf" THEN y
        ELSE IF x.mant = <<>> /\ y.mant = <<>> THEN Zero(x.neg /\ y.neg)
        ELSE IF x.mant = <<>> THEN y
        ELSE IF y.mant = <<>> THEN x
        ELSE IF tops > 60 THEN x
        ELSE IF tops < 0 - 60 THEN y
        ELSE PlusAligned(x, y, BigShl(x.mant, x.exp - e), BigShl(y.mant, y.exp - e), e)

\* -x
Negate(x) == IF x.t \in {"num", "inf"} THEN [x EXCEPT !.neg = ~x.neg] ELSE x
\* x - y for Numbers
Minus(x, y) == Plus(x, Negate(y))

(***************************************************************************)
(* Number::toString(x) and ToString(v) of ECMAScript: what a regular       *)
(* expression's test(v) and parseFloat(v) read when v is no string.        *)
(***************************************************************************)
AtLeastZero(k) == IF k > 0 THEN k ELSE 0

\* x >= 10^q, for a finite Number x > 0
GeqPow10(x, q) ==
    BigCmp(BigTimesPow10(BigShl(x.mant, AtLeastZero(x.exp)), AtLeastZero(0 - q)),
           BigShl(BigTimesPow10(<<1>>, AtLeastZero(q)), AtLeastZero(0 - x.exp))) >= 0

\* The n with 10^(n-1) <= x < 10^n, for a finite Number x > 0: found next to
\* the number of bits of x times log10(2).
DecimalTop(x) ==
    LET near == ((BigBitLen(x.mant) + x.exp + 2000) * 30103) \div 100000 - 602
    IN  CHOOSE n \in (near - 2)..(near + 2) : GeqPow10(x, n - 1) /\ ~GeqPow10(x, n)

\* floor(x * 10^j) and whether a remainder was left, for a finite Number x > 0
FloorTimesPow10(x, j) ==
    LET Over(a) == BigOverPow10(BigShr(a, AtLeastZero(0 - x.exp)), AtLeastZero(0 - j),
                                ~BigLowZero(a, AtLeastZero(0 - x.exp)))
    IN  Over(BigTimesPow10(BigShl(x.mant, AtLeastZero(x.exp)), AtLeastZero(j)))

\* Of floor(x * 10^j) = lo and lo + 1, the latter is the closer to x * 10^j:
\* by the next digit, and at a tie the even one.  next is FloorTimesPow10(x, j + 1).
HiCloser(next, lo) ==
    LET digit == BigDivMod(next.q, 10).r
    IN  digit > 5 \/ (digit = 5 /\ (next.inexact \/ BigOdd(lo)))

\* The digits s and the power p with s * 10^p read back as x, for the least
\* number k of digits from k on, and of two such s the closer to x.
RECURSIVE ShortestFrom(_, _, _)
ShortestTry(x, n, k, first, second) ==
    IF DecimalToDouble(FALSE, first, n - k) = x THEN [s |-> first, p |-> n - k]
    ELSE IF DecimalToDouble(FALSE, second, n - k) = x THEN [s |-> second, p |-> n - k]
    ELSE ShortestFrom(x, n, k + 1)
ShortestPick(x, n, k, lo, hiCloser) ==
    ShortestTry(x, n, k, IF hiCloser THEN BigAddSub(lo, <<1>>, 1) ELSE lo,
                         IF hiCloser THEN lo ELSE BigAddSub(lo, <<1>>, 1))
ShortestFrom(x, n, k) ==
    ShortestPick(x, n, k, FloorTimesPow10(x, k - n).q,
                 HiCloser(FloorTimesPow10(x, k + 1 - n), FloorTimesPow10(x, k - n).q))

\* The decimal digits of a natural number (none for zero)
RECURSIVE BigDigits(_)
BigDigits(a) ==
    IF a = <<>> THEN <<>>
    ELSE BigDigits(BigDivMod(a, 10).q)
         \o <<<<"0", "1", "2", "3", "4", "5", "6", "7", "8", "9">>[BigDivMod(a, 10).r + 1]>>
WithoutZerosAtEnd(d) ==
    SubSeq(d, 1, CHOOSE i \in 1..Len(d) : d[i] # "0" /\ \A j \in (i + 1)..Len(d) : d[j] = "0")

\* Number::toString for the k digits d of x and the n with 10^(n-1) <= x < 10^n
NumberChars(d, n) ==
    IF Len(d) <= n /\ n <= 21 THEN d \o [i \in 1..(n - Len(d)) |-> "0"]
    ELSE IF 0 < n /\ n <= 21 THEN SubSeq(d, 1, n) \o <<".">> \o SubSeq(d, n + 1, Len(d))
    ELSE IF 0 - 6 < n /\ n <= 0 THEN <<"0", ".">> \o [i \in 1..(0 - n) |-> "0"] \o d
    ELSE (IF Len(d) = 1 THEN d ELSE <<Head(d), ".">> \o Tail(d))
         \o (IF n > 1 THEN <<"e", "+">> \o BigDigits(BigFromInt(n - 1))
             ELSE <<"e", "-">> \o BigDigits(BigFromInt(1 - n)))

\* The sign and the characters of the shortest digits short.s * 10^short.p
ShortestChars(negative, short) ==
    (IF negative THEN <<"-">> ELSE <<>>)
    \o NumberChars(WithoutZerosAtEnd(BigDigits(short.s)), Len(BigDigits(short.s)) + short.p)

InfinityChars == <<"I", "n", "f", "i", "n", "i", "t", "y">>
NumberToString(x) ==
    CASE x.t = "nan" -> <<"N", "a", "N">>
      [] x.t = "inf" -> (IF x.neg THEN <<"-">> ELSE <<>>) \o InfinityChars
      [] x.t = "num" /\ x.mant = <<>> -> <<"0">>
      [] OTHER -> ShortestChars(x.neg, ShortestFrom([x EXCEPT !.neg = FALSE],
                                                   DecimalTop([x EXCEPT !.neg = FALSE]), 1))

\* The exception of a conversion that finds no primitive value: "TypeError:
\* Cannot convert object to primitive value".  TypeError stands for it where
\* a string or a boolean is computed, and Thrown where a Number is.
TypeError == "TypeError"
Thrown == Value("TypeError", FALSE, <<>>, 0, <<>>)

\* ToString(v) throws.  OrdinaryToPrimitive calls the object's toString and
\* then its valueOf, each only if it is a function.  A key toString of a JSON
\* object hides Object.prototype.toString and its value is no function, and
\* valueOf (Object.prototype.valueOf, unless the body's own value, no function
\* either, hides it) returns no primitive: the conversion throws.  An array is
\* joined from the ToString of its elements, null and undefined left out.
RECURSIVE ToStringThrows(_)
ToStringThrows(v) ==
    CASE v.t = "object" -> v.items[2].t # "undefined"
      [] v.t = "array" -> \E i \in 1..Len(v.items) : ToStringThrows(v.items[i])
      [] OTHER -> FALSE

\* StringOf(v) is ECMAScript's ToString(v); of an array, the ToString of its
\* elements joined by commas, those of null and undefined empty.  When the
\* conversion throws, StringOf(v) is <<TypeError>>, which is no string.
RECURSIVE StringOf(_)
RECURSIVE ArrayJoin(_)
ArrayJoin(items) ==
    IF \E i \in 1..Len(items) : ToStringThrows(items[i]) THEN <<TypeError>>
    ELSE IF items = <<>> THEN <<>>
    ELSE (IF Head(items).t \in {"null", "undefined"} THEN <<>> ELSE StringOf(Head(items)))
         \o (IF Len(items) = 1 THEN <<>> ELSE <<",">> \o ArrayJoin(Tail(items)))
StringOf(v) ==
    IF ToStringThrows(v) THEN <<TypeError>>
    ELSE CASE v.t = "str" -> v.chars
           [] v.t \in {"num", "inf", "nan"} -> NumberToString(v)
           [] v.t = "undefined" -> <<"u", "n", "d", "e", "f", "i", "n", "e", "d">>
           [] v.t = "null" -> <<"n", "u", "l", "l">>
           [] v.t = "true" -> <<"t", "r", "u", "e">>
           [] v.t = "false" -> <<"f", "a", "l", "s", "e">>
           [] v.t = "array" -> ArrayJoin(v.items)
           [] v.t = "object" -> <<"[", "o", "b", "j", "e", "c", "t", " ", "O", "b", "j", "e",
                                  "c", "t", "]">>


HasPrefix(s, p) == Len(s) >= Len(p) /\ SubSeq(s, 1, Len(p)) = p

\* StrDecimalLiteral: [+-] Infinity, or [+-] and an unsigned literal.
Unsigned(s) == IF s # <<>> /\ Head(s) \in {"+", "-"} THEN Tail(s) ELSE s
WithSign(negative, n) == IF negative THEN Negate(n) ELSE n
StrDecimalLiteral(s) ==
    WithSign(s # <<>> /\ Head(s) = "-",
             IF HasPrefix(Unsigned(s), InfinityChars) THEN Infinity
             ELSE ParseUnsigned(Unsigned(s)))

\* parseFloat(v): ToString(v), leading white space skipped, then the longest
\* prefix that is a StrDecimalLiteral.  A Number is printed and read back as
\* itself (-0 is printed "0"); of the other values the printed form is read.
\* parseFloat(v) is Thrown when ToString(v) throws.
parseFloat(v) ==
    CASE v.t = "num" -> IF v.mant = <<>> THEN Zero(FALSE) ELSE v
      [] v.t = "inf" -> v
      [] ToStringThrows(v) -> Thrown
      [] OTHER -> StrDecimalLiteral(TrimStart(StringOf(v)))

isNaN(n) == n.t = "nan"

\* !v: undefined, null, false, 0, -0, NaN and the empty string are falsy.
Falsy(v) ==
    \/ v.t \in {"undefined", "null", "false", "nan"}
    \/ v.t = "num" /\ v.mant = <<>>
    \/ v.t = "str" /\ v.chars = <<>>

\* n <= 0, n < 0 and n > c cents (c cents a whole number), for a Number n.
LeqZero(n) == Less(n, Zero(FALSE)) \/ (n.t = "num" /\ n.mant = <<>>)
LtZero(n) == Less(n, Zero(FALSE))
GtCents(n, c) == Less(Whole(c \div 100), n)

\* Mutant of RoundToCents: Math.floor in place of Math.round.
RoundToCentsDown(n) ==
    LET Floor(x) == IF x.exp >= 0 THEN MathRound(x) ELSE BigToInt(BigShr(x.mant, 0 - x.exp))
    IN  Floor(Times100(n))

\* Math.round(n * 100), the number of cents of Math.round(n * 100) / 100: the
\* quotient is the double nearest to that many hundredths, and is held as the
\* whole number of cents.  For a finite n with |n| below 10^7.
RoundToCents(n) == MathRound(Times100(n))

\* ToNumber of a balance or of a length property: undefined is NaN.
ToNumber(v) == IF v.t = "undefined" THEN NaN ELSE v

\* v.length < k and v.length > k, for a whole number k.  The length is the
\* number of code units of a string and of elements of an array, the property
\* of an object, and undefined for a Number or a boolean: undefined is NaN
\* in a comparison, neither below k nor above it.
LengthBelow(v, k) ==
    CASE v.t = "str" -> Len(v.chars) < k
      [] v.t = "array" -> Len(v.items) < k
      [] v.t = "object" -> Less(ToNumber(v.items[1]), Whole(k))
      [] OTHER -> FALSE
LengthAbove(v, k) ==
    CASE v.t = "str" -> Len(v.chars) > k
      [] v.t = "array" -> Len(v.items) > k
      [] v.t = "object" -> Less(Whole(k), ToNumber(v.items[1]))
      [] OTHER -> FALSE

\* a === b: strings and Numbers by value (0 and -0 equal, NaN equal to
\* nothing), arrays and objects by identity, and those of a request body are
\* new ones.
StrictEquals(a, b) ==
    /\ a.t = b.t
    /\ CASE a.t = "str" -> a.chars = b.chars
         [] a.t = "num" -> a = b \/ (a.mant = <<>> /\ b.mant = <<>>)
         [] a.t = "inf" -> a.neg = b.neg
         [] a.t \in {"undefined", "null", "true", "false"} -> TRUE
         [] OTHER -> FALSE

\* if (typeof input !== 'string') return input;
\* input.trim().replace(/[<>]/g, ''): trims first, then deletes every < and >.
sanitizeInput(input) ==
    IF input.t # "str" THEN input
    ELSE Str(SelectSeq(TrimEnd(TrimStart(input.chars)), IsNotAngle))

\* validatePassword: null when the password is acceptable, a message
\* otherwise, and TypeError when the regular expression's test throws.
\* /(?=.*[a-z])(?=.*[A-Z])(?=.*\d)/.test(password) reads s, the ToString of
\* its argument, and matches at a position p from which each of the three
\* classes is found before the next line terminator (passwordRegexTest).
passwordRegexTest(s) ==
    \E p \in 1..Len(s) :
        \A class \in {LowerCase, UpperCase, Digits} :
            \E i \in p..Len(s) :
                /\ s[i] \in class
                /\ \A n \in p..(i - 1) : s[n] \notin LineTerminators
validatePassword(password) ==
    IF Falsy(password) \/ LengthBelow(password, MinPasswordLen)
    THEN "Password must be at least 8 characters long"
    ELSE IF ToStringThrows(password) THEN TypeError
    ELSE IF ~passwordRegexTest(StringOf(password))
    THEN "Password must contain at least one uppercase letter, one lowercase letter, and one number"
    ELSE "null"

\* emailRegex = /^[^\s@]+@[^\s@]+\.[^\s@]+$/, tested on e, the ToString of the
\* argument; emailRegexTest(email) is TypeError when that conversion throws.
emailRegexMatch(e) ==
    \E i \in 1..Len(e) : \E j \in 1..Len(e) :
        /\ 1 < i /\ i + 1 < j /\ j < Len(e)
        /\ e[i] = "@" /\ e[j] = "."
        /\ \A k \in 1..Len(e) : k # i => (e[k] # "@" /\ e[k] \notin Whitespace)
emailRegexTest(email) ==
    IF ToStringThrows(email) THEN TypeError ELSE emailRegexMatch(StringOf(email))

\* bcrypt.hash / bcrypt.compare: a one-way tag around the password.  Both
\* reject ("Illegal arguments") when the password is no string; the secure
\* handlers catch that and answer 500.
bcryptAccepts(password) == password.t = "str"
bcryptHash(password) == <<"bcrypt", password>>
bcryptCompare(password, hash) == hash = bcryptHash(password)



(***************************************************************************)
(* The store.  A user's id (uuidv4(), fresh at every call) is its position *)
(* in the users array: users are appended and never removed.  Id 0 stands  *)
(* for an id missing from the request.                                     *)
(***************************************************************************)
NoId == 0
User(id, username, password, balance, role) ==
    [id |-> id, username |-> username, password |-> bcryptHash(password),
     balance |-> balance, role |-> role]

\* users.find(user => user.id === id): the index of the first match, 0 for none.
findUserById(id) ==
    IF \E i \in 1..Len(users) : users[i].id = id
    THEN CHOOSE i \in 1..Len(users) :
            /\ users[i].id = id
            /\ \A j \in 1..(i - 1) : users[j].id # id
    ELSE 0

\* users.find(user => user.username === username), likewise.
findUserByUsername(username) ==
    IF \E i \in 1..Len(users) : StrictEquals(users[i].username, username)
    THEN CHOOSE i \in 1..Len(users) :
            /\ StrictEquals(users[i].username, username)
            /\ \A j \in 1..(i - 1) : ~StrictEquals(users[j].username, username)
    ELSE 0

(***************************************************************************)
(* Tokens.  A JWT is its payload and who signed it; HS256 is deterministic,*)
(* so two logins of one user within one second return the same token.      *)
(* exp = NoExp: the vulnerable variant signs without expiresIn.            *)
(***************************************************************************)
NoExp == 0 - 1
Token(sig, userId, username, role, iat, exp) ==
    [sig |-> sig, userId |-> userId, username |-> username, role |-> role,
     iat |-> iat, exp |-> exp]
\* No Authorization header, or one without a second word.
NoToken == Token("none", NoId, Undefined, "none", 0, NoExp)

\* Math.floor(Date.now() / 1000)
NowSeconds(t) == t \div MsPerSecond

\* Mutant of jwtSign: the role claim is the default role, not the user's.
jwtSignDefaultRole(user, t) ==
    Token("server", user.id, user.username, "user", NowSeconds(t),
          NowSeconds(t) + JWT_EXPIRATION_SECONDS)

\* jwt.sign({userId, username, role, iat}, JWT_SECRET, {expiresIn: '1h'})
jwtSign(user, t) ==
    Token("server", user.id, user.username, user.role, NowSeconds(t),
          NowSeconds(t) + JWT_EXPIRATION_SECONDS)

\* Mutant of jwtVerify: the token still passes in the second of its expiry.
jwtVerifyLate(token, t) ==
    /\ token.sig = "server"
    /\ (token.exp = 0 - 1 \/ NowSeconds(t) <= token.exp)

\* jwt.verify(token, JWT_SECRET) returns (does not throw) at time t: the
\* signature is the server's and the clock has not reached exp.
jwtVerify(token, t) ==
    /\ token.sig = "server"
    /\ (token.exp = NoExp \/ NowSeconds(t) < token.exp)

\* A login's answer: the token, and Date.now() when it was signed.
Issued(token, t) == [token |-> token, at |-> t]
\* The tokens clients hold.
IssuedTokens == {i.token : i \in issued}

(***************************************************************************)
(* Responses.  stage names the middleware or handler that answered.        *)
(***************************************************************************)
Response(status, error, stage) == [status |-> status, error |-> error, stage |-> stage]
Pass == Response(0, "", "next")

\* Mutant of authenticateToken: invalidatedTokens is not consulted.
authenticateTokenNoRevocation(token) ==
    IF token.sig = "none"
    THEN Response(401, "Access token required", "authenticateToken")
    ELSE IF ~jwtVerify(token, now)
    THEN Response(403, "Invalid or expired token", "authenticateToken")
    ELSE IF findUserById(token.userId) = 0
    THEN Response(403, "User not found", "authenticateToken")
    ELSE Pass

\* authenticateToken (secure): Pass when next() is called, else the response.
authenticateToken(token) ==
    IF token.sig = "none"
    THEN Response(401, "Access token required", "authenticateToken")
    ELSE IF token \in invalidatedTokens
    THEN Response(403, "Token has been invalidated", "authenticateToken")
    ELSE IF ~jwtVerify(token, now)
    THEN Response(403, "Invalid or expired token", "authenticateToken")
    ELSE IF findUserById(token.userId) = 0
    THEN Response(403, "User not found", "authenticateToken")
    ELSE Pass

\* Mutant of requireAdmin: the role check left out.
requireAdminMissing(claims) == Pass

\* Mutant of requireAdmin: any role passes, so long as the token carries one.
requireAdminAnyRole(claims) ==
    IF claims.role = "none"
    THEN Response(403, "Admin access required", "requireAdmin")
    ELSE Pass

\* requireAdmin, on the claims authenticateToken stored in req.user.
requireAdmin(claims) ==
    IF claims.role # "admin"
    THEN Response(403, "Admin access required", "requireAdmin")
    ELSE Pass

\* Mutant of authorizeResourceAccess: || in place of &&.
authorizeResourceAccessOr(claims, requestedUserId) ==
    IF requestedUserId # claims.userId \/ claims.role # "admin"
    THEN [status |-> 403, error |-> "Access denied", stage |-> "authorizeResourceAccess"]
    ELSE [status |-> 0, error |-> "", stage |-> "next"]

\* authorizeResourceAccess, for req.params.userId.
authorizeResourceAccess(claims, requestedUserId) ==
    IF requestedUserId # claims.userId /\ claims.role # "admin"
    THEN Response(403, "Access denied", "authorizeResourceAccess")
    ELSE Pass

\* The first response of a chain of middleware results that is not Pass.
FirstOf(chain) ==
    IF \E i \in 1..Len(chain) : chain[i] # Pass
    THEN chain[CHOOSE i \in 1..Len(chain) :
                  chain[i] # Pass /\ \A j \in 1..(i - 1) : chain[j] = Pass]
    ELSE Pass

(***************************************************************************)
(* rateLimit, for a request from clientIP at time `now`.  An address with  *)
(* no entry in the Map has attempts = 0.                                   *)
(***************************************************************************)
NoEntry == [attempts |-> 0, resetTime |-> 0]

rateLimitStart(ip) ==
    \/ rateLimitStore[ip] = NoEntry
    \/ now > rateLimitStore[ip].resetTime

\* Mutant of rateLimit: > in place of >=.
rateLimitOffByOne(ip) ==
    IF ~rateLimitStart(ip) /\ rateLimitStore[ip].attempts > RATE_LIMIT_MAX_ATTEMPTS
    THEN Response(429, "Too many requests. Please try again later.", "rateLimit")
    ELSE Pass

rateLimit(ip) ==
    IF ~rateLimitStart(ip) /\ rateLimitStore[ip].attempts >= RATE_LIMIT_MAX_ATTEMPTS
    THEN Response(429, "Too many requests. Please try again later.", "rateLimit")
    ELSE Pass

\* Mutant of rateLimitNext: a rejected request starts the window again.
rateLimitNextPostpone(ip) ==
    IF rateLimitStart(ip)
    THEN [rateLimitStore EXCEPT ![ip] = [attempts |-> 1, resetTime |-> now + RATE_LIMIT_WINDOW]]
    ELSE IF rateLimitStore[ip].attempts >= RATE_LIMIT_MAX_ATTEMPTS
    THEN [rateLimitStore EXCEPT ![ip].resetTime = now + RATE_LIMIT_WINDOW]
    ELSE [rateLimitStore EXCEPT ![ip].attempts = @ + 1]

\* The Map after rateLimit ran for ip.
rateLimitNext(ip) ==
    IF rateLimitStart(ip)
    THEN [rateLimitStore EXCEPT ![ip] = [attempts |-> 1, resetTime |-> now + RATE_LIMIT_WINDOW]]
    ELSE IF rateLimitStore[ip].attempts >= RATE_LIMIT_MAX_ATTEMPTS
    THEN rateLimitStore
    ELSE [rateLimitStore EXCEPT ![ip].attempts = @ + 1]

\* The history of admissions, kept for the addresses under observation: a
\* request of `kind` from ip at time `now` that rateLimit passes on, with the
\* resetTime of the window that counted it.
ObservedIPs == {"10.0.0.3"}
Admission(ip, kind) ==
    [ip |-> ip, kind |-> kind, at |-> now, resetTime |-> rateLimitNext(ip)[ip].resetTime]
Admit(ip, kind) ==
    admitted' = IF ip \in ObservedIPs /\ rateLimit(ip) = Pass
                THEN Append(admitted, Admission(ip, kind))
                ELSE admitted


(***************************************************************************)
(* Requests, and the record of the last response.                          *)
(*   ip: the caller address; token: the Authorization header's token;      *)
(*   target: :userId, body.recipientId or body.userId; value: body.amount  *)
(*   or body.newBalance; username, password, email: the body's values.     *)
(***************************************************************************)
Request(kind, ip, token, target, value, username, password, email) ==
    [kind |-> kind, ip |-> ip, token |-> token, target |-> target, value |-> value,
     username |-> username, password |-> password, email |-> email]
NoRequest == Request("none", "", NoToken, NoId, Undefined, Undefined, Undefined, Undefined)

\* An authenticated request: a token, a target id and a JSON value.
AuthRequest(kind, token, target, value) ==
    Request(kind, "", token, target, value, Undefined, Undefined, Undefined)

\* A request of the two open endpoints, register and login.
OpenRequest(kind, ip, username, password, email) ==
    Request(kind, ip, NoToken, NoId, Undefined, username, password, email)

\* res.status(..).json(..): the response is sent at time `now`.  granted is the
\* token a login returned.
Respond(req, res, granted) ==
    last' = [at |-> now, req |-> req, res |-> res, granted |-> granted]

\* The process ended while req was being handled: no response was sent.  No
\* handler runs in a process that has ended.
Exited(req) == [at |-> now, req |-> req, res |-> Response(0, "", "exit"), granted |-> NoToken]
Running == last.res.stage # "exit"

(***************************************************************************)
(* Handlers suspended at an await: pc names the await, user the index of   *)
(* the user object the handler holds a reference to.                       *)
(***************************************************************************)
Slots == 1..MaxInflight
Idle == [pc |-> "idle", req |-> NoRequest, user |-> 0]
HasFreeSlot == \E i \in Slots : inflight[i] = Idle
FreeSlot == CHOOSE i \in Slots : inflight[i] = Idle /\ \A j \in 1..(i - 1) : inflight[j] # Idle
Suspend(pc, req, user) ==
    inflight' = [inflight EXCEPT ![FreeSlot] = [pc |-> pc, req |-> req, user |-> user]]
\* Users that suspended registrations are about to push.
PendingPushes == Cardinality({i \in Slots : inflight[i].pc = "hash"})

(***************************************************************************)
(* POST /api/register (secure)                                             *)
(***************************************************************************)
\* if (passwordError) return res.status(400).json({ error: passwordError });
\* an exception of validatePassword is caught by the handler's catch: 500.
passwordResponse(passwordError) ==
    IF passwordError = TypeError THEN Response(500, "Registration failed", "handler")
    ELSE IF passwordError # "null" THEN Response(400, passwordError, "handler")
    ELSE Pass

\* The checks before `await bcrypt.hash`: Pass, or the 400 response, or the
\* 500 of the catch when emailRegex.test or validatePassword throws.
registerValidate(username, password, email) ==
    LET sanitizedUsername == sanitizeInput(username)
        sanitizedEmail == sanitizeInput(email)
    IN  IF Falsy(username) \/ Falsy(password) \/ Falsy(email)
        THEN Response(400, "Username, password, and email are required", "handler")
        ELSE IF \/ LengthBelow(sanitizedUsername, MinUsernameLen)
                \/ LengthAbove(sanitizedUsername, MaxUsernameLen)
        THEN Response(400, "Username must be between 3 and 30 characters", "handler")
        ELSE IF ToStringThrows(sanitizedEmail)
        THEN Response(500, "Registration failed", "handler")
        ELSE IF ~emailRegexTest(sanitizedEmail)
        THEN Response(400, "Invalid email format", "handler")
        ELSE IF findUserByUsername(sanitizedUsername) # 0
        THEN Response(400, "Username already exists", "handler")
        ELSE passwordResponse(validatePassword(password))

\* The handler after the limiter and its checks answered res.
registerHandle(ip, req, res) ==
    /\ res = Pass => (HasFreeSlot /\ Len(users) + PendingPushes < MaxUsers)
    /\ rateLimitStore' = rateLimitNext(ip)
    /\ Admit(ip, "register")
    /\ IF res = Pass
       THEN /\ Suspend("hash", req, 0)
            /\ UNCHANGED last
       ELSE /\ Respond(req, res, NoToken)
            /\ UNCHANGED inflight
    /\ UNCHANGED <<users, transactions, invalidatedTokens, now, issued>>

Register(ip, username, password, email) ==
    registerHandle(ip, OpenRequest("register", ip, username, password, email),
                   FirstOf(<<rateLimit(ip), registerValidate(username, password, email)>>))

\* After `await bcrypt.hash`: users.push(newUser), 201.  The username stored is
\* what sanitizeInput returned, a string or not.
registerPush(req) ==
    Append(users, User(Len(users) + 1, sanitizeInput(req.username), req.password,
                       StartingBalanceCents, "user"))

(***************************************************************************)
(* POST /api/login (secure)                                                *)
(***************************************************************************)
\* The checks before `await bcrypt.compare`.
loginValidate(username, password) ==
    IF Falsy(username) \/ Falsy(password)
    THEN Response(400, "Username and password are required", "handler")
    ELSE IF findUserByUsername(sanitizeInput(username)) = 0
    THEN Response(401, "Invalid credentials", "handler")
    ELSE Pass

Login(ip, username, password) ==
    LET req == OpenRequest("login", ip, username, password, Undefined)
        res == FirstOf(<<rateLimit(ip), loginValidate(username, password)>>)
    IN  /\ res = Pass => HasFreeSlot
        /\ rateLimitStore' = rateLimitNext(ip)
        /\ Admit(ip, "login")
        /\ IF res = Pass
           THEN /\ Suspend("compare", req, findUserByUsername(sanitizeInput(username)))
                /\ UNCHANGED last
           ELSE /\ Respond(req, res, NoToken)
                /\ UNCHANGED inflight
        /\ UNCHANGED <<users, transactions, invalidatedTokens, now, issued>>

(***************************************************************************)
(* POST /api/send (secure)                                                 *)
(***************************************************************************)
\* const roundedAmount = Math.round(numericAmount * 100) / 100
roundedAmount(amount) == RoundToCents(parseFloat(amount))

\* Mutant of sufficientFunds: the funds check left out.
sufficientFundsAlways(balance, rounded) == TRUE

\* if (sender.balance < roundedAmount): the funds suffice.
sufficientFunds(balance, rounded) == ~(balance < rounded)

\* Mutant of isSelfTransfer: the self-transfer check left out.
isSelfTransferNever(sender, recipient) == FALSE

\* if (sender.id === recipient.id), for the indices of the two users found.
isSelfTransfer(sender, recipient) == users[sender].id = users[recipient].id

\* The handler's checks, in order: Pass when the transfer is to be applied.
\* An exception of parseFloat is caught by the handler's catch: 500.
sendChecks(recipientId, amount, numericAmount, sender, recipient) ==
    IF recipientId = NoId \/ Falsy(amount)
    THEN Response(400, "Recipient and amount are required", "handler")
    ELSE IF numericAmount = Thrown
    THEN Response(500, "Transfer failed", "handler")
    ELSE IF isNaN(numericAmount) \/ LeqZero(numericAmount)
            \/ GtCents(numericAmount, MaxTransferCents)
    THEN Response(400, "Invalid amount", "handler")
    ELSE IF sender = 0 \/ recipient = 0
    THEN Response(404, "User not found", "handler")
    ELSE IF isSelfTransfer(sender, recipient)
    THEN Response(400, "Cannot send money to yourself", "handler")
    ELSE IF ~sufficientFunds(users[sender].balance, RoundToCents(numericAmount))
    THEN Response(400, "Insufficient funds", "handler")
    ELSE Pass
\* numericAmount = parseFloat(amount); sender and recipient are the users found.
sendValidate(senderId, recipientId, amount) ==
    sendChecks(recipientId, amount, parseFloat(amount), findUserById(senderId),
               findUserById(recipientId))

\* Mutant of Transaction: the record names the recipient as the sender.
TransactionSwapped(senderId, recipientId, amount) ==
    [senderId |-> recipientId, recipientId |-> senderId, amount |-> amount,
     type |-> "transfer"]

Transaction(senderId, recipientId, amount) ==
    [senderId |-> senderId, recipientId |-> recipientId, amount |-> amount,
     type |-> "transfer"]

\* Mutant of sendBalances: the recipient is not credited.
sendBalancesNoCredit(sender, recipient, rounded) ==
    [users EXCEPT ![sender].balance = @ - rounded]

\* sender.balance = Math.round((sender.balance - roundedAmount) * 100) / 100
\* and the same with + for the recipient: the users array afterwards.  The
\* secure variant stores only results of Math.round(...) / 100, the doubles
\* nearest to whole cents; below 2^53 / 100 the difference or sum of two of
\* them, times 100, is within 10^-6 of the whole number of cents, so
\* Math.round returns that number and the balances are kept in cents.
sendBalances(sender, recipient, rounded) ==
    [users EXCEPT ![sender].balance = @ - rounded, ![recipient].balance = @ + rounded]

\* The writes of a transfer of `rounded` from senderId to recipientId.
sendWrites(req, senderId, recipientId, rounded) ==
    /\ users' = sendBalances(findUserById(senderId), findUserById(recipientId), rounded)
    /\ transactions' = Append(transactions, Transaction(senderId, recipientId, rounded))
    /\ Respond(req, Response(200, "", "handler"), NoToken)

\* Mutant of sendApply: the account debited is the one the body names.
sendApplyDebitsNamed(req) ==
    sendWrites(req, req.target, req.token.userId, roundedAmount(req.value))

\* Lines 652-676: debit, credit, push the transaction, answer 200.
sendApply(req) ==
    sendWrites(req, req.token.userId, req.target, roundedAmount(req.value))

\* Mutant of sendAwaitsBeforeDebit: an await between the check and the debit.
sendAwaitsBeforeDebitYes == TRUE

\* Whether the handler gives up control between the funds check and the
\* debit: it has no await, so it does not.
sendAwaitsBeforeDebit == FALSE

\* The handler after its checks answered res.
sendHandle(req, res) ==
    /\ res = Pass => Len(transactions) < MaxTx
    /\ IF res # Pass
       THEN /\ Respond(req, res, NoToken)
            /\ UNCHANGED <<users, transactions, inflight>>
       ELSE IF sendAwaitsBeforeDebit
       THEN /\ HasFreeSlot
            /\ Suspend("debit", req, 0)
            /\ UNCHANGED <<users, transactions, last>>
       ELSE /\ sendApply(req)
            /\ UNCHANGED inflight
    /\ UNCHANGED <<admitted, invalidatedTokens, rateLimitStore, now, issued>>

Send(token, recipientId, amount) ==
    sendHandle(AuthRequest("send", token, recipientId, amount),
               FirstOf(<<authenticateToken(token),
                         sendValidate(token.userId, recipientId, amount)>>))

(***************************************************************************)
(* The continuation of a suspended handler.                                *)
(***************************************************************************)
Resume(i) ==
    LET h == inflight[i] IN
    /\ h.pc # "idle"
    /\ inflight' = [inflight EXCEPT ![i] = Idle]
    /\ CASE h.pc = "hash" ->
              IF bcryptAccepts(h.req.password)
              THEN /\ users' = registerPush(h.req)
                   /\ Respond(h.req, Response(201, "", "handler"), NoToken)
                   /\ UNCHANGED <<transactions, issued>>
              ELSE /\ Respond(h.req, Response(500, "Registration failed", "handler"), NoToken)
                   /\ UNCHANGED <<users, transactions, issued>>
         [] h.pc = "compare" ->
              IF ~bcryptAccepts(h.req.password)
              THEN /\ Respond(h.req, Response(500, "Login failed", "handler"), NoToken)
                   /\ UNCHANGED <<users, transactions, issued>>
              ELSE IF bcryptCompare(h.req.password, users[h.user].password)
              THEN /\ issued' = issued \cup {Issued(jwtSign(users[h.user], now), now)}
                   /\ Respond(h.req, Response(200, "", "handler"), jwtSign(users[h.user], now))
                   /\ UNCHANGED <<users, transactions>>
              ELSE /\ Respond(h.req, Response(401, "Invalid credentials", "handler"), NoToken)
                   /\ UNCHANGED <<users, transactions, issued>>
         [] h.pc = "debit" ->
              /\ sendApply(h.req)
              /\ UNCHANGED issued
    /\ UNCHANGED <<admitted, invalidatedTokens, rateLimitStore, now>>


(***************************************************************************)
(* POST /api/logout (secure)                                               *)
(***************************************************************************)
\* Mutant of logoutRevoke: the set is replaced by the token logged out.
logoutRevokeReplace(token) == {token}

\* invalidatedTokens.add(token): the Set afterwards.
logoutRevoke(token) == invalidatedTokens \cup {token}

Logout(token) ==
    LET req == AuthRequest("logout", token, NoId, Undefined)
        res == authenticateToken(token)
    IN  /\ IF res = Pass
           THEN /\ invalidatedTokens' = logoutRevoke(token)
                /\ Respond(req, Response(200, "", "handler"), NoToken)
           ELSE /\ Respond(req, res, NoToken)
                /\ UNCHANGED invalidatedTokens
        /\ UNCHANGED <<admitted, users, transactions, rateLimitStore, now, issued, inflight>>

(***************************************************************************)
(* GET /api/user/:userId, /api/balance/:userId, /api/transactions/:userId  *)
(* (secure): authenticateToken, authorizeResourceAccess, then the handler. *)
(***************************************************************************)
\* The handlers of /api/user and /api/balance: 404 for an unknown id.
readUser(userId) ==
    IF findUserById(userId) = 0
    THEN Response(404, "User not found", "handler")
    ELSE Response(200, "", "handler")

\* Mutant of readResponse: the handler's lookup runs before the authorization.
readResponseLookupFirst(token, userId, handler) ==
    FirstOf(<<authenticateToken(token), handler, authorizeResourceAccess(token, userId)>>)

\* app.get(path, authenticateToken, authorizeResourceAccess, handler): the
\* response of the chain.
readResponse(token, userId, handler) ==
    FirstOf(<<authenticateToken(token), authorizeResourceAccess(token, userId), handler>>)

Read(kind, token, userId, handler) ==
    LET req == AuthRequest(kind, token, userId, Undefined)
        res == readResponse(token, userId, handler)
    IN  /\ Respond(req, res, NoToken)
        /\ UNCHANGED <<admitted, users, transactions, invalidatedTokens, rateLimitStore, now,
                       issued, inflight>>

GetUser(token, userId) == Read("user", token, userId, readUser(userId))
GetBalance(token, userId) == Read("balance", token, userId, readUser(userId))
GetTransactions(token, userId) ==
    Read("transactions", token, userId, Response(200, "", "handler"))

(***************************************************************************)
(* GET /api/admin/users, POST /api/admin/modify-balance (secure)           *)
(***************************************************************************)
AdminUsers(token) ==
    LET req == AuthRequest("adminUsers", token, NoId, Undefined)
        res == FirstOf(<<authenticateToken(token), requireAdmin(token),
                         Response(200, "", "handler")>>)
    IN  /\ Respond(req, res, NoToken)
        /\ UNCHANGED <<admitted, users, transactions, invalidatedTokens, rateLimitStore, now,
                       issued, inflight>>

\* The handler's checks: Pass when the balance is to be overwritten.  An
\* exception of parseFloat is caught by the handler's catch: 500.
modifyBalanceChecks(userId, newBalance, numericBalance) ==
    IF userId = NoId \/ newBalance.t = "undefined"
    THEN Response(400, "User ID and new balance are required", "handler")
    ELSE IF numericBalance = Thrown
    THEN Response(500, "Balance modification failed", "handler")
    ELSE IF isNaN(numericBalance) \/ LtZero(numericBalance)
            \/ GtCents(numericBalance, MaxBalanceCents)
    THEN Response(400, "Invalid balance amount", "handler")
    ELSE IF findUserById(userId) = 0
    THEN Response(404, "User not found", "handler")
    ELSE Pass
\* numericBalance = parseFloat(newBalance)
modifyBalanceValidate(userId, newBalance) ==
    modifyBalanceChecks(userId, newBalance, parseFloat(newBalance))

\* The audit entries the process retains.  The handler writes the entry with
\* console.log and keeps it nowhere: the stores are users, transactions,
\* invalidatedTokens and rateLimitStore, and none of them receives it.
auditLog == <<>>

\* console.log(`Admin ${req.user.username} modified balance for user
\* ${user.username} from ${oldBalance} to ${user.balance}`) converts the two
\* usernames to strings, after user.balance was assigned: when one of the
\* conversions throws, the catch answers 500 and the balance stays assigned.
modifyBalanceLogged(req) ==
    IF \/ ToStringThrows(req.token.username)
       \/ ToStringThrows(users[findUserById(req.target)].username)
    THEN Response(500, "Balance modification failed", "handler")
    ELSE Response(200, "", "handler")

\* The handler after its checks answered res: user.balance =
\* Math.round(numericBalance * 100) / 100, or the error.
modifyBalanceHandle(req, res) ==
    /\ IF res = Pass
       THEN /\ users' = [users EXCEPT ![findUserById(req.target)].balance =
                                          RoundToCents(parseFloat(req.value))]
            /\ Respond(req, modifyBalanceLogged(req), NoToken)
       ELSE /\ Respond(req, res, NoToken)
            /\ UNCHANGED users
    /\ UNCHANGED <<admitted, transactions, invalidatedTokens, rateLimitStore, now, issued,
                   inflight>>

ModifyBalance(token, userId, newBalance) ==
    modifyBalanceHandle(AuthRequest("modifyBalance", token, userId, newBalance),
                        FirstOf(<<authenticateToken(token), requireAdmin(token),
                                  modifyBalanceValidate(userId, newBalance)>>))

(***************************************************************************)
(* Time passes, to one of the instants the model watches.                  *)
(***************************************************************************)
Tick(t) ==
    /\ t > now
    /\ now' = t
    /\ UNCHANGED <<admitted, users, transactions, invalidatedTokens, rateLimitStore, issued,
                   inflight, last>>

(***************************************************************************)
(* The vulnerable variant (src/server.js): register and login.             *)
(***************************************************************************)
vulnRegisterValidate(username, password) ==
    IF Falsy(username) \/ Falsy(password)
    THEN Response(400, "Username and password required", "handler")
    ELSE IF findUserByUsername(username) # 0
    THEN Response(400, "User already exists", "handler")
    ELSE Pass

VulnRegister(username, password, email) ==
    LET req == OpenRequest("register", "", username, password, email)
        res == vulnRegisterValidate(username, password)
    IN  /\ Running
        /\ res = Pass => (HasFreeSlot /\ Len(users) + PendingPushes < MaxUsers)
        /\ IF res = Pass
           THEN /\ Suspend("hash", req, 0)
                /\ UNCHANGED last
           ELSE /\ Respond(req, res, NoToken)
                /\ UNCHANGED inflight
        /\ UNCHANGED <<admitted, users, transactions, invalidatedTokens, rateLimitStore, now, issued>>

\* users.push(newUser) of the vulnerable variant: the username as sent.
vulnRegisterPush(req) ==
    Append(users, User(Len(users) + 1, req.username, req.password,
                       Num(StartingBalanceCents, 0), "user"))

\* jwt.sign({userId, username, role}, JWT_SECRET): iat is set by the library,
\* no expiry.
vulnJwtSign(user, t) ==
    Token("server", user.id, user.username, user.role, NowSeconds(t), NoExp)

VulnLogin(username, password) ==
    LET req == OpenRequest("login", "", username, password, Undefined)
        user == findUserByUsername(username)
    IN  /\ Running
        /\ user # 0 => HasFreeSlot
        /\ IF user = 0
           THEN /\ Respond(req, Response(401, "Invalid credentials", "handler"), NoToken)
                /\ UNCHANGED inflight
           ELSE /\ Suspend("compare", req, user)
                /\ UNCHANGED last
        /\ UNCHANGED <<admitted, users, transactions, invalidatedTokens, rateLimitStore, now, issued>>

\* `await bcrypt.hash` (line 46) and `await bcrypt.compare` (line 81) stand in
\* no try block and the application installs no error middleware: when
\* bcrypt rejects, the promise of the async handler rejects.  What follows is
\* the framework's and the runtime's doing, and the source fixes the version
\* of neither: Express 5 passes the rejection to its default error handler,
\* which answers 500 with a page that is no JSON body; Express 4 drops the
\* promise, and Node ends the process on the unhandled rejection, with the
\* request unanswered and every suspended handler gone.
vulnUnhandledRejection(i, req) ==
    \/ /\ inflight' = [inflight EXCEPT ![i] = Idle]
       /\ Respond(req, Response(500, "", "errorHandler"), NoToken)
    \/ /\ inflight' = [j \in Slots |-> Idle]
       /\ last' = Exited(req)

\* The continuations after the vulnerable variant's awaits.  A password that
\* is no string makes bcrypt reject, and nothing catches the rejection.
VulnResume(i) ==
    LET h == inflight[i] IN
    /\ Running
    /\ h.pc # "idle"
    /\ CASE ~bcryptAccepts(h.req.password) ->
              /\ vulnUnhandledRejection(i, h.req)
              /\ UNCHANGED <<users, issued>>
         [] h.pc = "hash" ->
              /\ inflight' = [inflight EXCEPT ![i] = Idle]
              /\ users' = vulnRegisterPush(h.req)
              /\ Respond(h.req, Response(201, "", "handler"), NoToken)
              /\ UNCHANGED issued
         [] h.pc = "compare" ->
              /\ inflight' = [inflight EXCEPT ![i] = Idle]
              /\ IF bcryptCompare(h.req.password, users[h.user].password)
                 THEN /\ issued' = issued \cup {Issued(vulnJwtSign(users[h.user], now), now)}
                      /\ Respond(h.req, Response(200, "", "handler"),
                                 vulnJwtSign(users[h.user], now))
                      /\ UNCHANGED users
                 ELSE /\ Respond(h.req, Response(401, "Invalid credentials", "handler"),
                                 NoToken)
                      /\ UNCHANGED <<users, issued>>
    /\ UNCHANGED <<admitted, transactions, invalidatedTokens, rateLimitStore, now>>


\* authenticateToken (vulnerable): 401 without a token, 403 with the library's
\* message when jwt.verify throws; no revocation set, no user lookup.
vulnAuthenticateToken(token) ==
    IF token.sig = "none"
    THEN Response(401, "Access token required", "authenticateToken")
    ELSE IF ~jwtVerify(token, now)
    THEN Response(403, "Invalid token", "authenticateToken")
    ELSE Pass

\* GET /api/balance/:userId (vulnerable): authenticateToken, then the lookup.
VulnGetBalance(token, userId) ==
    LET req == AuthRequest("balance", token, userId, Undefined)
        res == FirstOf(<<vulnAuthenticateToken(token), readUser(userId)>>)
    IN  /\ Running
        /\ Respond(req, res, NoToken)
        /\ UNCHANGED <<admitted, users, transactions, invalidatedTokens, rateLimitStore,
                       now, issued, inflight>>

\* GET /api/user/:userId (vulnerable): the same chain.
VulnGetUser(token, userId) ==
    LET req == AuthRequest("user", token, userId, Undefined)
        res == FirstOf(<<vulnAuthenticateToken(token), readUser(userId)>>)
    IN  /\ Running
        /\ Respond(req, res, NoToken)
        /\ UNCHANGED <<admitted, users, transactions, invalidatedTokens, rateLimitStore,
                       now, issued, inflight>>

\* GET /api/transactions/:userId (vulnerable): the filter never fails.
VulnGetTransactions(token, userId) ==
    LET req == AuthRequest("transactions", token, userId, Undefined)
        res == FirstOf(<<vulnAuthenticateToken(token), Response(200, "", "handler")>>)
    IN  /\ Running
        /\ Respond(req, res, NoToken)
        /\ UNCHANGED <<admitted, users, transactions, invalidatedTokens, rateLimitStore,
                       now, issued, inflight>>

\* GET /api/admin/users (vulnerable): authenticateToken only.
VulnAdminUsers(token) ==
    LET req == AuthRequest("adminUsers", token, NoId, Undefined)
        res == FirstOf(<<vulnAuthenticateToken(token), Response(200, "", "handler")>>)
    IN  /\ Running
        /\ Respond(req, res, NoToken)
        /\ UNCHANGED <<admitted, users, transactions, invalidatedTokens, rateLimitStore,
                       now, issued, inflight>>

(***************************************************************************)
(* POST /api/send and POST /api/admin/modify-balance (vulnerable).  The    *)
(* handlers compute with the body's values as they are: no parseFloat, no  *)
(* rounding.  A balance of this variant is therefore a value, not a number *)
(* of cents: the Number of the last assignment, or undefined.  The         *)
(* handlers are modelled for an amount and a newBalance that are absent or *)
(* a JSON number (a string is compared, subtracted and concatenated by     *)
(* rules that are not modelled).                                           *)
(***************************************************************************)
\* The body's value is absent or a JSON number (1e999 is read as Infinity).
AbsentOrNumber(v) == v.t \in {"undefined", "num", "inf"}

\* The handler's checks, in order: Pass when the transfer is to be applied.
\* us is the users array, with this variant's balances.
vulnSendValidate(us, senderId, recipientId, amount) ==
    IF recipientId = NoId \/ Falsy(amount) \/ LeqZero(amount)
    THEN Response(400, "Valid recipient and amount required", "handler")
    ELSE IF findUserById(senderId) = 0 \/ findUserById(recipientId) = 0
    THEN Response(404, "User not found", "handler")
    ELSE IF Less(ToNumber(us[findUserById(senderId)].balance), amount)
    THEN Response(400, "Insufficient funds", "handler")
    ELSE Pass

\* Mutant of vulnSendBalances: the debit is made twice.
vulnSendBalancesTwice(us, sender, recipient, amount) ==
    [us EXCEPT ![sender].balance = Minus(Minus(ToNumber(@), amount), amount),
                  ![recipient].balance = Plus(ToNumber(@), amount)]

\* sender.balance -= amount; recipient.balance += amount, in floating point
\* and unrounded (one object when the sender is the recipient: the second
\* statement works on the result of the first).
vulnSendBalances(us, sender, recipient, amount) ==
    [us EXCEPT ![sender].balance = Minus(ToNumber(@), amount),
                  ![recipient].balance = Plus(ToNumber(@), amount)]

\* Mutant of vulnSendApply: the ledger is replaced by the new record.
vulnSendApplyOverwrite(req) ==
    /\ users' = vulnSendBalances(users, findUserById(req.token.userId),
                                 findUserById(req.target), req.value)
    /\ transactions' = <<Transaction(req.token.userId, req.target, req.value)>>
    /\ Respond(req, Response(200, "", "handler"), NoToken)

\* Lines 182-201: debit, credit, push the transaction, answer 200.
vulnSendApply(req) ==
    /\ users' = vulnSendBalances(users, findUserById(req.token.userId),
                                 findUserById(req.target), req.value)
    /\ transactions' = Append(transactions,
                              Transaction(req.token.userId, req.target, req.value))
    /\ Respond(req, Response(200, "", "handler"), NoToken)

\* Mutant of VulnSend: the sender is debited before the recipient is looked up.
VulnSendDebitsFirst(token, recipientId, amount) ==
    LET req == AuthRequest("send", token, recipientId, amount)
        res == FirstOf(<<vulnAuthenticateToken(token),
                         vulnSendValidate(users, token.userId, recipientId, amount)>>)
    IN  /\ Running
        /\ AbsentOrNumber(amount)
        /\ res = Pass => Len(transactions) < MaxTx
        /\ IF res = Pass
           THEN vulnSendApply(req)
           ELSE IF res.status = 404 /\ findUserById(token.userId) # 0
           THEN /\ users' = [users EXCEPT ![findUserById(token.userId)].balance =
                                              Minus(ToNumber(@), amount)]
                /\ Respond(req, res, NoToken)
                /\ UNCHANGED transactions
           ELSE /\ Respond(req, res, NoToken)
                /\ UNCHANGED <<users, transactions>>
        /\ UNCHANGED <<admitted, invalidatedTokens, rateLimitStore, now, issued, inflight>>

VulnSend(token, recipientId, amount) ==
    LET req == AuthRequest("send", token, recipientId, amount)
        res == FirstOf(<<vulnAuthenticateToken(token),
                         vulnSendValidate(users, token.userId, recipientId, amount)>>)
    IN  /\ Running
        /\ AbsentOrNumber(amount)
        /\ res = Pass => Len(transactions) < MaxTx
        /\ IF res # Pass
           THEN /\ Respond(req, res, NoToken)
                /\ UNCHANGED <<users, transactions>>
           ELSE vulnSendApply(req)
        /\ UNCHANGED <<admitted, invalidatedTokens, rateLimitStore, now, issued, inflight>>

\* The handler's one check: Pass when the balance is to be overwritten.
vulnModifyBalanceValidate(userId) ==
    IF findUserById(userId) = 0
    THEN Response(404, "User not found", "handler")
    ELSE Pass

\* Mutant of vulnNewBalance: a negative value is stored as 0.
vulnNewBalanceClamped(newBalance) ==
    IF LtZero(ToNumber(newBalance)) THEN Zero(FALSE) ELSE newBalance

\* user.balance = newBalance: the value stored is the body's, undefined
\* when the body has none.
vulnNewBalance(newBalance) == newBalance

VulnModifyBalance(token, userId, newBalance) ==
    LET req == AuthRequest("modifyBalance", token, userId, newBalance)
        res == FirstOf(<<vulnAuthenticateToken(token), vulnModifyBalanceValidate(userId)>>)
    IN  /\ Running
        /\ AbsentOrNumber(newBalance)
        /\ IF res = Pass
           THEN /\ users' = [users EXCEPT ![findUserById(userId)].balance =
                                              vulnNewBalance(newBalance)]
                /\ Respond(req, Response(200, "", "handler"), NoToken)
           ELSE /\ Respond(req, res, NoToken)
                /\ UNCHANGED users
        /\ UNCHANGED <<admitted, transactions, invalidatedTokens, rateLimitStore, now, issued,
                       inflight>>

(***************************************************************************)
(* Inputs.                                                                 *)
(***************************************************************************)
IPs == {"10.0.0.1", "10.0.0.2", "10.0.0.3"}
adminName == Str(<<"a", "d", "m", "i", "n">>)
alice == Str(<<"a", "l", "i", "c", "e">>)
bob == Str(<<"b", "o", "b">>)
AdminPassword == Str(<<"S", "e", "c", "u", "r", "e", "A", "d", "m", "i", "n", "1", "2", "3", "!">>)
VulnAdminPassword == Str(<<"a", "d", "m", "i", "n", "1", "2", "3">>)
GoodPassword == Str(<<"P", "a", "s", "s", "w", "o", "r", "d", "1">>)
ShortPassword == Str(<<"s", "h", "o", "r", "t">>)
GoodEmail == Str(<<"a", "@", "b", ".", "c", "o", "m">>)
BadEmail == Str(<<"a", "@", "b">>)
\* White space before the @: the pattern's [^\s@]+ refuses it.
TabEmail == Str(<<"a", "\t", "@", "b", ".", "c">>)
\* Lower case before a line terminator, upper case and digit after it: no
\* position sees all three without crossing the terminator.
LinePassword == Str(<<"a", "a", "a", "a", "a", "a", "a", "a", "\n", "A", "1">>)

\* A token nobody issued: the payload of an admin, signed with another key.
ForgedToken == Token("forged", 1, adminName, "admin", 0, NoExp)

(***************************************************************************)
(* The state after app.listen's callback: the default admin exists.        *)
(***************************************************************************)
NoResponse == [at |-> 0, req |-> NoRequest, res |-> Response(0, "", "none"),
               granted |-> NoToken]

InitWith(adminPassword, adminBalance) ==
    /\ users = <<User(1, adminName, adminPassword, adminBalance, "admin")>>
    /\ transactions = <<>>
    /\ invalidatedTokens = {}
    /\ rateLimitStore = [ip \in IPs |-> NoEntry]
    /\ now = 0
    /\ issued = {}
    /\ inflight = [i \in Slots |-> Idle]
    /\ last = NoResponse
    /\ admitted = <<>>

Init == InitWith(AdminPassword, AdminBalanceCents)
VulnInit == InitWith(VulnAdminPassword, Num(AdminBalanceCents, 0))

(***************************************************************************)
(* Spec: accounts of the secure variant, from startup: registrations and   *)
(* logins, each suspended at its await, interleave.  The bodies hold       *)
(* strings and values that are none: the number 1 as username and as       *)
(* password, an array as username and as password, an object as email and  *)
(* as password.                                                            *)
(***************************************************************************)
\* A username, or a password, that is the number 1, and a username that is
\* the array ["<", "s", ">"].
NumberName == Whole(1)
ArrayName == Arr(<<Str(<<"<">>), Str(<<"s">>), Str(<<">">>)>>)
\* The objects {}, {"toString": 1} and {"length": 5, "toString": 1} of a JSON
\* body: the conversion to a string of the last two throws.
PlainObject == Obj(Undefined, Undefined)
ThrowingObject == Obj(Undefined, Whole(1))
ObjectName == Obj(Whole(5), Whole(1))
\* The array of the nine characters of GoodPassword: ["P", "a", ..., "1"].
ArrayPassword == Arr([i \in 1..Len(GoodPassword.chars) |-> Str(<<GoodPassword.chars[i]>>)])

\* Bodies of POST /api/register: <<username, password, email>>.
RegisterBodies ==
    { <<alice, GoodPassword, GoodEmail>>,
      <<NumberName, GoodPassword, GoodEmail>>,
      <<ArrayName, GoodPassword, GoodEmail>>,
      <<bob, ArrayPassword, GoodEmail>>,
      <<Str(<<" ">> \o alice.chars), GoodPassword, GoodEmail>>,
      <<Str(<<"\t">> \o alice.chars), GoodPassword, GoodEmail>>,
      <<bob, LinePassword, GoodEmail>>,
      <<bob, GoodPassword, TabEmail>>,
      <<bob, GoodPassword, GoodEmail>>,
      <<Str(<<"a", "b">>), GoodPassword, GoodEmail>>,
      <<alice, ShortPassword, GoodEmail>>,
      <<alice, GoodPassword, BadEmail>>,
      <<bob, GoodPassword, PlainObject>>,
      <<bob, GoodPassword, ThrowingObject>>,
      <<bob, GoodPassword, Arr(<<ThrowingObject>>)>>,
      <<bob, ThrowingObject, GoodEmail>> }
\* Bodies of POST /api/login: <<username, password>>.
LoginBodies ==
    { <<alice, GoodPassword>>, <<Str(alice.chars \o <<"\n">>), GoodPassword>>,
      <<alice, ShortPassword>>, <<bob, GoodPassword>>,
      <<NumberName, NumberName>> }

Next ==
    \/ \E b \in RegisterBodies : Register("10.0.0.1", b[1], b[2], b[3])
    \/ \E b \in LoginBodies : Login("10.0.0.1", b[1], b[2])
    \/ \E i \in Slots : Resume(i)

Spec == Init /\ [][Next]_vars

(***************************************************************************)
(* VulnSpec: accounts of the vulnerable variant, from startup.  A password *)
(* may be the number 1, and a login may come without one: bcrypt rejects   *)
(* both.                                                                   *)
(***************************************************************************)
VulnNext ==
    \/ \E username \in {alice, bob, Undefined} :
       \E password \in {GoodPassword, ShortPassword, NumberName} :
          VulnRegister(username, password, GoodEmail)
    \/ \E username \in {alice, bob} : \E password \in {GoodPassword, ShortPassword, Undefined} :
          VulnLogin(username, password)
    \/ \E i \in Slots : VulnResume(i)

VulnSpec == VulnInit /\ [][VulnNext]_vars

\* C10: no two user records share a username.
UsernamesUnique ==
    \A i \in 1..Len(users) : \A j \in 1..Len(users) :
        users[i].username = users[j].username => i = j


(***************************************************************************)
(* A session under way, at time 0, all from address 10.0.0.1: alice and    *)
(* bob registered, then admin, alice and bob logged in (five requests      *)
(* through rateLimit).  The specifications that follow start here.         *)
(***************************************************************************)
SessionUsers ==
    <<User(1, adminName, AdminPassword, AdminBalanceCents, "admin"),
      User(2, alice, GoodPassword, StartingBalanceCents, "user"),
      User(3, bob, GoodPassword, StartingBalanceCents, "user")>>
AdminToken == jwtSign(SessionUsers[1], 0)
AliceToken == jwtSign(SessionUsers[2], 0)
BobToken == jwtSign(SessionUsers[3], 0)

InitSession ==
    /\ users = SessionUsers
    /\ transactions = <<>>
    /\ invalidatedTokens = {}
    /\ rateLimitStore = [ip \in IPs |->
                            IF ip = "10.0.0.1"
                            THEN [attempts |-> 5, resetTime |-> RATE_LIMIT_WINDOW]
                            ELSE NoEntry]
    /\ now = 0
    /\ issued = {Issued(AdminToken, 0), Issued(AliceToken, 0), Issued(BobToken, 0)}
    /\ inflight = [i \in Slots |-> Idle]
    /\ last = [at |-> 0,
               req |-> OpenRequest("login", "10.0.0.1", bob, GoodPassword, Undefined),
               res |-> Response(200, "", "handler"), granted |-> BobToken]
    /\ admitted = <<>>

\* What a caller may put in the Authorization header: nothing, a token it was
\* given, or one it made up.
Presentable == IssuedTokens \cup {NoToken, ForgedToken}
\* The ids a caller may name: every user's, and one that no user has.
UnknownId == MaxUsers + 1
KnownIds == {users[i].id : i \in 1..Len(users)}
NameableIds == KnownIds \cup {UnknownId}

(***************************************************************************)
(* SpecAuthz: the authenticated reads and the admin operations.            *)
(***************************************************************************)
AuthzBalances == {Undefined, Num(0 - 1, 0), Num(50000, 5), Str(<<"a", "b", "c">>)}

NextAuthz ==
    \/ \E token \in Presentable : \E id \in NameableIds : GetUser(token, id)
    \/ \E token \in Presentable : \E id \in NameableIds : GetBalance(token, id)
    \/ \E token \in Presentable : \E id \in NameableIds : GetTransactions(token, id)
    \/ \E token \in Presentable : AdminUsers(token)
    \/ \E token \in Presentable : \E id \in {NoId, 2, UnknownId} :
       \E newBalance \in AuthzBalances : ModifyBalance(token, id, newBalance)
    \/ \E token \in Presentable : Logout(token)

SpecAuthz == InitSession /\ [][NextAuthz]_vars

ReadKinds == {"user", "balance", "transactions"}
AdminKinds == {"adminUsers", "modifyBalance"}

\* C1: a read of /api/user, /api/balance or /api/transactions with a valid
\* token reaches its handler if and only if the token's userId is the
\* requested id or its role is admin; otherwise authorizeResourceAccess
\* answers 403.  (Reads change nothing, so the token that was valid when the
\* request was answered is valid in the state that holds the answer.)
C1_ResourceAccessIffOwnerOrAdmin ==
    (last.req.kind \in ReadKinds /\ authenticateToken(last.req.token) = Pass) =>
        LET claims == last.req.token
            allowed == claims.userId = last.req.target \/ claims.role = "admin"
        IN  /\ allowed <=> last.res.stage = "handler"
            /\ ~allowed => /\ last.res.status = 403
                           /\ last.res.stage = "authorizeResourceAccess"
            /\ claims.userId = last.req.target => last.res.stage = "handler"

\* C1's case: alice, a plain user, asked for bob's balance and got 403.
C1_Witness ==
    /\ last.req.kind = "balance"
    /\ last.req.token = AliceToken
    /\ last.req.target = 3
    /\ last.res.status = 403
    /\ last.res.stage = "authorizeResourceAccess"

\* C2: a step that answers an admin operation requested with a valid token
\* performs it (the handler is reached) if and only if the token's role is
\* admin; a non-admin's request is answered 403 by requireAdmin, whatever the
\* target and the new balance, and leaves every balance as it was.  (The
\* admin operations revoke nothing, so the token is valid before the step if
\* and only if it was when the request was answered.)
C2_Step ==
    (/\ last'.req.kind \in AdminKinds
     /\ authenticateToken(last'.req.token) = Pass) =>
        /\ (last'.req.token.role = "admin") <=> (last'.res.stage = "handler")
        /\ last'.req.token.role # "admin" =>
              /\ last'.res.status = 403
              /\ last'.res.stage = "requireAdmin"
              /\ users' = users
\* C2: in every step, an admin operation asked with a valid token is performed
\* if and only if the token's role is admin, and a non-admin's setBalance is
\* answered 403 and changes no balance.
C2_AdminOnlyIffAdmin == [][C2_Step]_vars

\* C2's case: alice asked to set the balance of an id nobody has, and got 403.
C2_Witness ==
    /\ last.req.kind = "modifyBalance"
    /\ last.req.token = AliceToken
    /\ last.req.target = UnknownId
    /\ last.res.status = 403
    /\ last.res.stage = "requireAdmin"


\* The answer to a GET of the three user-scoped routes, by kind.
ReadAnswer(kind, token, userId) ==
    readResponse(token, userId,
                 IF kind = "transactions" THEN Response(200, "", "handler") ELSE readUser(userId))
\* A caller with a valid token who is not an admin.
PlainCallers == {t \in Presentable : authenticateToken(t) = Pass /\ t.role # "admin"}

\* C12: for a non-admin caller with a valid token and an id other than the
\* caller's own, the three reads answer 403 Access denied, the same response
\* for the id of an existing user as for an id that no user has; and every such
\* request that was answered got exactly that response.
C12_ForbiddenDoesNotLeakExistence ==
    /\ \A t \in PlainCallers : \A kind \in ReadKinds :
       \A id \in KnownIds \ {t.userId} : \A missing \in NameableIds \ KnownIds :
          /\ ReadAnswer(kind, t, id) = ReadAnswer(kind, t, missing)
          /\ ReadAnswer(kind, t, id).status = 403
    /\ (/\ last.req.kind \in ReadKinds
        /\ last.req.token \in PlainCallers
        /\ last.req.target # last.req.token.userId) =>
            last.res = Response(403, "Access denied", "authorizeResourceAccess")

\* C12's case: alice asked for the balance of an id that no user has and was
\* answered 403 Access denied, not 404.
C12_Witness ==
    /\ last.req = AuthRequest("balance", AliceToken, UnknownId, Undefined)
    /\ last.res = Response(403, "Access denied", "authorizeResourceAccess")
    /\ findUserById(UnknownId) = 0
    /\ AliceToken \in PlainCallers


(***************************************************************************)
(* SpecToken: the life of a token: login, use at every authenticated       *)
(* endpoint, logout, and the clock running past the expiry.  The requests  *)
(* are ones whose handlers change no balance, so that only the token       *)
(* decides the answer.  alice logs in again in the first second only, so   *)
(* both of her logins return the token she holds already.                  *)
(***************************************************************************)
\* The instants the clock shows, and those at which alice logs in again.
TimePoints == {500, 3599999, 3600000}
LoginTimes == {0, 500}

\* The callers of SpecToken: no token, alice's and the admin's.
TokenCallers == Presentable \ {BobToken, ForgedToken}

NextToken ==
    \/ now \in LoginTimes /\ Login("10.0.0.2", alice, GoodPassword)
    \/ \E i \in Slots : Resume(i)
    \/ \E token \in TokenCallers : Logout(token)
    \/ \E token \in TokenCallers : GetUser(token, 2)
    \/ \E token \in TokenCallers : GetBalance(token, 2)
    \/ \E token \in TokenCallers : GetTransactions(token, 2)
    \/ \E token \in TokenCallers : AdminUsers(token)
    \/ \E token \in TokenCallers : ModifyBalance(token, UnknownId, Num(50000, 5))
    \/ \E token \in TokenCallers : Send(token, 3, Num(0 - 500, 0))
    \/ \E t \in TimePoints : Tick(t)

SpecToken == InitSession /\ [][NextToken]_vars

AuthenticatedKinds ==
    {"logout", "user", "balance", "transactions", "send", "adminUsers", "modifyBalance"}

\* C4: once a logout with token t succeeded, t stays in invalidatedTokens, and
\* every request to an authenticated endpoint that presents a token of that
\* set is answered by authenticateToken with an error: its handler does not
\* run and nothing changes.
C4_Step ==
    /\ invalidatedTokens \subseteq invalidatedTokens'
    /\ (/\ last'.req.kind = "logout"
        /\ last'.res.status = 200) => last'.req.token \in invalidatedTokens'
    /\ (/\ last' # last
        /\ last'.req.kind \in AuthenticatedKinds
        /\ last'.req.token \in invalidatedTokens) =>
            /\ last'.res.stage = "authenticateToken"
            /\ last'.res.status \in {401, 403}
            /\ UNCHANGED <<users, transactions, invalidatedTokens, issued>>
\* C4: in every step, invalidatedTokens only grows, a logout puts its token
\* there, and a request presenting a token of that set is refused by
\* authenticateToken and changes nothing.
C4_RevokedTokenRejectedForever == [][C4_Step]_vars

\* C4's case: alice logged out, and her token was then refused at /api/balance.
C4_Witness ==
    /\ AliceToken \in invalidatedTokens
    /\ last.req.kind = "balance"
    /\ last.req.token = AliceToken
    /\ last.res = Response(403, "Token has been invalidated", "authenticateToken")

\* The last response answers an authenticated request that presented the
\* token of login i, not revoked.
PresentedUnrevoked(i) ==
    /\ last.req.kind \in AuthenticatedKinds
    /\ last.req.token = i.token
    /\ i.token \notin invalidatedTokens
Accepted == last.res.stage # "authenticateToken"

\* C5 as stated: the token of a login answered at time T is accepted at every
\* time before T + 1 hour and refused at every time after it.
C5_ExpiryExactlyOneHourAfterLogin ==
    \A i \in issued :
        PresentedUnrevoked(i) =>
            /\ last.at < i.at + MsPerSecond * JWT_EXPIRATION_SECONDS => Accepted
            /\ last.at > i.at + MsPerSecond * JWT_EXPIRATION_SECONDS => ~Accepted

\* C5 amended: the token of a login answered at time T carries
\* iat = floor(T / 1000) and exp = iat + 3600 seconds: one hour after T cut to
\* the whole second.  Not revoked, it is accepted exactly while
\* floor(now / 1000) < exp.
C5_ExpiryOneHourAfterWholeSecond ==
    \A i \in issued :
        /\ i.token.iat = NowSeconds(i.at)
        /\ i.token.exp = NowSeconds(i.at) + JWT_EXPIRATION_SECONDS
        /\ PresentedUnrevoked(i) => (Accepted <=> NowSeconds(last.at) < i.token.exp)

\* C5's case: a token of a login at time 500 is still accepted at 3599999.
C5_Witness ==
    /\ Issued(AliceToken, 500) \in issued
    /\ PresentedUnrevoked(Issued(AliceToken, 500))
    /\ last.at = 3599999
    /\ last.req.kind = "balance"
    /\ last.res = Response(200, "", "handler")

\* C21: invalidatedTokens only grows: every step keeps each token of the set,
\* and adds at most the token of a logout answered 200; every request to an
\* authenticated endpoint that presents a token of the set is answered 403
\* Token has been invalidated, whatever else holds of the token (so the set is
\* consulted on every validation); and a logout with a token already in the
\* set leaves the set as it was.
C21_Step ==
    /\ invalidatedTokens \subseteq invalidatedTokens'
    /\ invalidatedTokens' # invalidatedTokens =>
          /\ last'.req.kind = "logout"
          /\ last'.res.status = 200
          /\ invalidatedTokens' = invalidatedTokens \cup {last'.req.token}
    /\ (/\ last' # last
        /\ last'.req.kind \in AuthenticatedKinds
        /\ last'.req.token \in invalidatedTokens) =>
            /\ last'.res = Response(403, "Token has been invalidated", "authenticateToken")
            /\ invalidatedTokens' = invalidatedTokens
\* C21: that, of every step.
C21_RevocationSetMonotone == [][C21_Step]_vars

\* C21's case: the admin and alice logged out, alice logged out a second
\* time, and the set still holds the two tokens.
C21_Witness ==
    /\ invalidatedTokens = {AdminToken, AliceToken}
    /\ last.req = AuthRequest("logout", AliceToken, NoId, Undefined)
    /\ last.res = Response(403, "Token has been invalidated", "authenticateToken")


(***************************************************************************)
(* SpecLedger: transfers and balance overrides, of alice and of the user   *)
(* who registers, interleaved with a registration and logins, from the     *)
(* session under way.                                                      *)
(***************************************************************************)
carol == Str(<<"c", "a", "r", "o", "l">>)
\* The bodies {recipientId, amount} of the transfers requested.
SendBodies ==
    { <<3, Num(60000, 0)>>, <<2, Num(60000, 0)>>,
      <<UnknownId, Num(60000, 0)>>, <<NoId, Num(60000, 0)>>,
      <<3, Undefined>>, <<3, Num(0, 0)>>, <<3, Num(0 - 500, 0)>>,
      <<3, Num(MaxTransferCents, 1)>>,
      <<2, Str(<<"5", "a", "b", "c">>)>>, <<3, Str(<<"a", "b", "c">>)>>,
      <<3, ThrowingObject>> }
LedgerBalances == { Num(50000, 5), Num(0 - 1, 0) }
LedgerCallers == {AliceToken, BobToken}

\* The address that registers and logs in makes this many requests at most.
LedgerAttempts == 1

LedgerRegister ==
    /\ rateLimitStore["10.0.0.2"].attempts < LedgerAttempts
    /\ Register("10.0.0.2", carol, GoodPassword, GoodEmail)
LedgerLogin ==
    /\ rateLimitStore["10.0.0.2"].attempts < LedgerAttempts
    /\ Login("10.0.0.2", alice, GoodPassword)
\* The registration of a username that is an object of length 5, which no
\* template literal can print, as the first request of its address.
LedgerRegisterObject ==
    /\ rateLimitStore["10.0.0.2"] = NoEntry
    /\ Register("10.0.0.2", ObjectName, GoodPassword, GoodEmail)

NextLedger ==
    \/ \E token \in LedgerCallers : \E body \in SendBodies : Send(token, body[1], body[2])
    \/ \E token \in {AdminToken, BobToken} : \E newBalance \in LedgerBalances :
          ModifyBalance(token, 2, newBalance)
    \/ ModifyBalance(AdminToken, 4, Num(50000, 5))
    \/ LedgerRegister
    \/ LedgerRegisterObject
    \/ LedgerLogin
    \/ \E i \in Slots : Resume(i)

SpecLedger == InitSession /\ [][NextLedger]_vars

\* The user a send request debits, and the amount it asks for, in cents.
SenderOf(req) == findUserById(req.token.userId)
AskedCents(req) == roundedAmount(req.value)
RECURSIVE SumBalances(_)
SumBalances(us) == IF us = <<>> THEN 0 ELSE Head(us).balance + SumBalances(Tail(us))

\* C3: transfers that debit one sender never overdraw it, however their
\* handlers interleave: a transfer is applied only in a step in which the
\* sender's balance at that moment covers the amount, and is refused with
\* Insufficient funds only in a step in which it does not; so of two transfers
\* of 600 against a balance of 1000 the first answered succeeds and the second
\* is refused.
C3_Step ==
    /\ \A i \in 1..Len(users') : users'[i].balance >= 0
    /\ transactions' # transactions =>
          LET tx == transactions'[Len(transactions')]
          IN  /\ Len(transactions') = Len(transactions) + 1
              /\ users[findUserById(tx.senderId)].balance >= tx.amount
    /\ (/\ last' # last
        /\ last'.req.kind = "send"
        /\ last'.res.error = "Insufficient funds") =>
            /\ users[SenderOf(last'.req)].balance < AskedCents(last'.req)
            /\ UNCHANGED <<users, transactions>>
\* C3: in every step, a transfer is applied only against a current balance
\* that covers it and refused for lack of funds only against one that does
\* not, and no balance falls below 0.
C3_NoStaleBalanceOverdraft == [][C3_Step]_vars

\* C3's case: alice had 1000 and sent 600 twice: one transfer is in the ledger,
\* her balance is 400, and the other was refused for lack of funds.
C3_Witness ==
    /\ Len(transactions) = 1
    /\ transactions[1] = Transaction(2, 3, 60000)
    /\ users[2].balance = 40000
    /\ last.req = AuthRequest("send", AliceToken, 3, Num(60000, 0))
    /\ last.res = Response(400, "Insufficient funds", "handler")

\* C6: every balance is >= 0 in every state; a transfer refused with
\* Insufficient funds asked for more (rounded to cents) than the sender has,
\* and a transfer that was applied left the sender with balance >= 0.
C6_BalancesNonNegative ==
    /\ \A i \in 1..Len(users) : users[i].balance >= 0
    /\ (last.req.kind = "send" /\ last.res.error = "Insufficient funds") =>
          users[SenderOf(last.req)].balance < AskedCents(last.req)
    /\ (last.req.kind = "send" /\ last.res.status = 200) =>
          /\ transactions # <<>>
          /\ transactions[Len(transactions)].amount = AskedCents(last.req)
          /\ users[SenderOf(last.req)].balance >= 0

\* C6's case: the admin set alice's balance to 500.01 (from 500.005), and her
\* transfer of 600 was refused.
C6_Witness ==
    /\ users[2].balance = 50001
    /\ last.req = AuthRequest("send", AliceToken, 3, Num(60000, 0))
    /\ last.res = Response(400, "Insufficient funds", "handler")

\* C7: the step that answers a transfer with 200 takes the rounded amount from
\* the sender, gives it to the recipient, appends the one record
\* {senderId, recipientId, rounded amount, transfer}, changes no other balance
\* and keeps the sum of the balances; no other step appends to the ledger.
C7_Step ==
    (\/ transactions' # transactions
     \/ (last' # last /\ last'.req.kind = "send" /\ last'.res.status = 200)) =>
        LET req == last'.req
            s == SenderOf(req)
            r == findUserById(req.target)
            amt == AskedCents(req)
        IN  /\ req.kind = "send" /\ last'.res.status = 200
            /\ transactions' = Append(transactions, Transaction(req.token.userId, req.target, amt))
            /\ s # 0 /\ r # 0 /\ s # r
            /\ Len(users') = Len(users)
            /\ users'[s].balance = users[s].balance - amt
            /\ users'[r].balance = users[r].balance + amt
            /\ \A i \in 1..Len(users) : i \notin {s, r} => users'[i] = users[i]
            /\ SumBalances(users') = SumBalances(users)
\* C7: every step that answers a transfer with 200, or appends to the ledger,
\* debits the sender and credits the recipient by the rounded amount, appends
\* the one record, and keeps every other balance and the sum of all balances.
C7_TransferAtomicAndConserving == [][C7_Step]_vars

\* C7's case: alice sent bob 600: 400 and 1600, and one record in the ledger.
C7_Witness ==
    /\ transactions = <<Transaction(2, 3, 60000)>>
    /\ users[2].balance = 40000
    /\ users[3].balance = 160000
    /\ last.req = AuthRequest("send", AliceToken, 3, Num(60000, 0))
    /\ last.res.status = 200

\* A JSON value that is a positive finite number, at most the ceiling.
PositiveNumber(v) == v.t = "num" /\ ~LeqZero(v)
WithinTransferCeiling(v) == ~GtCents(v, MaxTransferCents)

\* C8: a transfer request that passed authenticateToken and whose amount is
\* not a positive finite number, or exceeds 1,000,000, is answered 400 and
\* changes neither the balances nor the ledger.
C8_Step ==
    (/\ last'.req.kind = "send"
     /\ last'.res.stage = "handler"
     /\ ~(PositiveNumber(last'.req.value) /\ WithinTransferCeiling(last'.req.value))) =>
        /\ last'.res.status = 400
        /\ UNCHANGED <<users, transactions>>
\* C8: every authenticated transfer whose amount is not a positive finite
\* number within the ceiling is answered 400 and changes neither balances
\* nor ledger.
C8_InvalidAmountRejected == [][C8_Step]_vars

\* C9: a transfer to oneself with a valid amount is answered 400, Cannot send
\* money to yourself, whether or not the funds suffice, and no record of the
\* ledger has senderId = recipientId.
C9_SelfTransferRejected ==
    /\ (/\ last.req.kind = "send"
        /\ last.res.stage = "handler"
        /\ last.req.target = last.req.token.userId
        /\ PositiveNumber(last.req.value) /\ WithinTransferCeiling(last.req.value)) =>
            last.res = Response(400, "Cannot send money to yourself", "handler")
    /\ \A k \in 1..Len(transactions) :
          transactions[k].senderId # transactions[k].recipientId

\* C9's case: alice, left with 400, sent herself 600 and was refused as a
\* self-transfer, not for lack of funds.
C9_Witness ==
    /\ users[2].balance = 40000
    /\ last.req = AuthRequest("send", AliceToken, 2, Num(60000, 0))
    /\ last.res = Response(400, "Cannot send money to yourself", "handler")


\* C25: a step made for a request whose token does not carry the role admin
\* (a plain user's token, or none) lowers no balance but the caller's own; no
\* step changes the role of a user; and the only user with role admin is the
\* account created at startup, the first of the store.
C25_Step ==
    /\ (users' # users /\ last'.req.token.role # "admin") =>
          \A i \in 1..Len(users) :
             users'[i].balance < users[i].balance => users[i].id = last'.req.token.userId
    /\ Len(users') >= Len(users)
    /\ \A i \in 1..Len(users) : users'[i].role = users[i].role /\ users'[i].id = users[i].id
    /\ \A i \in 1..Len(users') : users'[i].role = "admin" => i = 1
\* C25: that, of every step.
C25_NoPrivilegeEscalation == [][C25_Step]_vars

\* C25's case: alice has sent bob 600, and bob, a plain user, asked to set
\* alice's balance and was refused by requireAdmin: her balance is as her own
\* transfer left it.
C25_Witness ==
    /\ last.req.kind = "modifyBalance"
    /\ last.req.token = BobToken
    /\ last.req.target = 2
    /\ last.res = Response(403, "Admin access required", "requireAdmin")
    /\ users[2].balance = 40000
    /\ users[3].balance = 160000

\* A step that answers a setBalance with 200.
SetBalanceApplied == last' # last /\ last'.req.kind = "modifyBalance" /\ last'.res.status = 200

\* The sums of the amounts of the records of txs sent and received by id.
RECURSIVE SentBy(_, _)
SentBy(txs, id) ==
    IF txs = <<>> THEN 0
    ELSE (IF Head(txs).senderId = id THEN Head(txs).amount ELSE 0) + SentBy(Tail(txs), id)
RECURSIVE ReceivedBy(_, _)
ReceivedBy(txs, id) ==
    IF txs = <<>> THEN 0
    ELSE (IF Head(txs).recipientId = id THEN Head(txs).amount ELSE 0)
            + ReceivedBy(Tail(txs), id)
\* Each balance is the starting balance (10000 for the startup admin, 1000 for
\* a registered user) less what the ledger says the user sent plus what it
\* says the user received, and the balances add up to 10000 + 1000 for each
\* registered user.
BalancesMatchLedger ==
    /\ \A i \in 1..Len(users) :
          users[i].balance = (IF i = 1 THEN 1000000 ELSE 100000)
                                - SentBy(transactions, users[i].id)
                                + ReceivedBy(transactions, users[i].id)
    /\ SumBalances(users) = 1000000 + 100000 * (Len(users) - 1)

\* A step in which a setBalance assigned the balance: it was answered 200,
\* or 500 after the assignment.
SetBalanceAssigned ==
    \/ SetBalanceApplied
    \/ last' # last /\ last'.req.kind = "modifyBalance" /\ last'.res.status = 500
          /\ users' # users

\* C30: the balances match the ledger at the start, and every step other than
\* a setBalance that assigned a balance keeps them matching: so they match in
\* every state reached without an admin setBalance.
C30_Step == (BalancesMatchLedger /\ ~SetBalanceAssigned) => BalancesMatchLedger'
C30_BalancesConsistentWithLedger ==
    (users = SessionUsers => BalancesMatchLedger) /\ [][C30_Step]_vars

\* C30's case: carol registered, alice sent bob 600 and bob sent alice 5, and
\* no balance was ever set: 405, 1595, and 13000 in all.
C30_Witness ==
    /\ Len(users) = 4
    /\ transactions = <<Transaction(2, 3, 60000), Transaction(3, 2, 500)>>
    /\ users[2].balance = 40500
    /\ users[3].balance = 159500
    /\ BalancesMatchLedger


(***************************************************************************)
(* SpecRate: logins from an observed address and from another one, around  *)
(* the end of a rate-limit window.                                         *)
(***************************************************************************)
mallory == Str(<<"m", "a", "l", "l", "o", "r", "y">>)
RateTimes == {RATE_LIMIT_WINDOW, RATE_LIMIT_WINDOW + 1}

NextRate ==
    \/ \E username \in {alice, mallory} : Login("10.0.0.3", username, GoodPassword)
    \/ Login("10.0.0.2", mallory, GoodPassword)
    \/ \E i \in Slots : Resume(i)
    \/ \E t \in RateTimes : Tick(t)

SpecRate == InitSession /\ [][NextRate]_vars

\* The admissions, in history h, of requests of one kind from ip at times lo..hi.
AdmittedBetween(h, ip, kind, lo, hi) ==
    {j \in 1..Len(h) : h[j].ip = ip /\ h[j].kind = kind /\ lo <= h[j].at /\ h[j].at <= hi}
\* The admissions, in history h, that the window of ip ending at resetTime counted.
AdmittedInWindow(h, ip, resetTime) ==
    {j \in 1..Len(h) : h[j].ip = ip /\ h[j].resetTime = resetTime}
\* A step in which a request was answered 429.
Answered429 == last' # last /\ last'.res.status = 429

\* C11 as stated: of the logins from one address, at most 5 are admitted in any
\* interval of 15 minutes (taken from any admission on), and a request
\* answered 429 does not reach the handler.
C11_Step ==
    /\ \A i \in 1..Len(admitted') :
          Cardinality(AdmittedBetween(admitted', admitted'[i].ip, "login", admitted'[i].at,
                                      admitted'[i].at + RATE_LIMIT_WINDOW - 1))
             <= RATE_LIMIT_MAX_ATTEMPTS
    /\ Answered429 => UNCHANGED <<users, issued, inflight, admitted>>
C11_AtMostFivePerInterval == [][C11_Step]_vars

\* C11 amended: the windows of an address are fixed, not sliding.  A window
\* opens with the first request after the previous window's resetTime has
\* passed and ends 15 minutes later; it admits at most 5 requests, register
\* and login together, all made within it; windows of one address do not
\* overlap; a request that is not admitted is answered 429 by rateLimit and
\* changes nothing.
C11_WindowStep ==
    /\ \A i \in 1..Len(admitted') :
          LET e == admitted'[i] IN
          /\ e.resetTime - RATE_LIMIT_WINDOW <= e.at /\ e.at <= e.resetTime
          /\ Cardinality(AdmittedInWindow(admitted', e.ip, e.resetTime))
                <= RATE_LIMIT_MAX_ATTEMPTS
          /\ \A j \in 1..Len(admitted') :
                (admitted'[j].ip = e.ip /\ admitted'[j].resetTime > e.resetTime) =>
                    admitted'[j].resetTime - RATE_LIMIT_WINDOW > e.resetTime
    /\ Answered429 =>
          /\ last'.res.stage = "rateLimit"
          /\ UNCHANGED <<users, issued, inflight, admitted, rateLimitStore>>
    /\ (/\ last' # last
        /\ last'.req.ip \in ObservedIPs
        /\ inflight' = inflight
        /\ admitted' = admitted) => last'.res.status = 429
\* C11 amended, as a property of every step.
C11_AtMostFivePerWindow == [][C11_WindowStep]_vars

\* C11's case: a window that admitted 5 requests, a later window of the same
\* address, and a request just answered 429.
C11_Witness ==
    /\ last.res.status = 429
    /\ last.req.ip \in ObservedIPs
    /\ \E i, j \in 1..Len(admitted) :
          /\ admitted[i].ip = admitted[j].ip
          /\ admitted[i].resetTime < admitted[j].resetTime
          /\ Cardinality(AdmittedInWindow(admitted, admitted[i].ip, admitted[i].resetTime))
                = RATE_LIMIT_MAX_ATTEMPTS


\* A step in which a request from ip arrives and passes through rateLimit: it
\* is answered at once, or its handler is suspended at its await.
ArrivesFrom(ip) ==
    \/ last' # last /\ last'.req.ip = ip /\ inflight' = inflight
    \/ \E i \in Slots : inflight[i] = Idle /\ inflight'[i] # Idle /\ inflight'[i].req.ip = ip
\* The address is being answered 429: its window is full and has not ended.
Blocked(ip) ==
    /\ rateLimitStore[ip].attempts >= RATE_LIMIT_MAX_ATTEMPTS
    /\ now <= rateLimitStore[ip].resetTime

\* C24: a request answered 429 comes from an address whose window is full and
\* still open, and leaves the attempt counter and the reset time as they were;
\* the reset time of a window is 15 minutes after its first request, and the
\* first request an address with a full window makes after that time is
\* admitted and opens a new window with that request as its first.
C24_Step ==
    /\ Answered429 =>
          /\ Blocked(last'.req.ip)
          /\ rateLimitStore' = rateLimitStore
    /\ \A ip \in IPs :
          (/\ ArrivesFrom(ip)
           /\ rateLimitStore[ip].attempts >= RATE_LIMIT_MAX_ATTEMPTS
           /\ now > rateLimitStore[ip].resetTime) =>
              /\ ~Answered429
              /\ rateLimitStore'[ip] = [attempts |-> 1, resetTime |-> now + RATE_LIMIT_WINDOW]
              /\ ip \in ObservedIPs =>
                    /\ Len(admitted') = Len(admitted) + 1
                    /\ admitted'[Len(admitted')].at = now
    /\ \A j \in 1..Len(admitted') :
          \E k \in 1..j :
             /\ admitted'[k].ip = admitted'[j].ip
             /\ admitted'[k].resetTime = admitted'[j].resetTime
             /\ admitted'[k].at + RATE_LIMIT_WINDOW = admitted'[j].resetTime
\* C24: that, of every step.
C24_LimitResetsAfterWindow == [][C24_Step]_vars

\* C24's case: an address had five requests admitted in the window that began
\* at 0, was answered 429 at 0, and at 900001 ms is admitted again.
C24_Witness ==
    /\ last.res.status = 429
    /\ last.req.ip = "10.0.0.3"
    /\ last.at = 0
    /\ now = RATE_LIMIT_WINDOW + 1
    /\ Cardinality(AdmittedInWindow(admitted, "10.0.0.3", RATE_LIMIT_WINDOW))
          = RATE_LIMIT_MAX_ATTEMPTS
    /\ \E j \in 1..Len(admitted) :
          admitted[j].ip = "10.0.0.3" /\ admitted[j].at = RATE_LIMIT_WINDOW + 1


(***************************************************************************)
(* SpecVulnAuth: the vulnerable variant's login and an authenticated read. *)
(***************************************************************************)
NextVulnAuth ==
    \/ \E password \in {VulnAdminPassword, GoodPassword, Undefined} :
          VulnLogin(adminName, password)
    \/ \E i \in Slots : VulnResume(i)
    \/ \E token \in Presentable : \E userId \in NameableIds : VulnGetBalance(token, userId)
    \/ \E t \in TimePoints : Tick(t)

SpecVulnAuth == VulnInit /\ [][NextVulnAuth]_vars

\* A step that answers a request presenting a token with a failure of
\* authenticateToken.
CredentialRefused(rec) ==
    /\ rec.res.stage = "authenticateToken"
    /\ rec.req.token # NoToken

\* C13: whenever two requests in a row are refused by authenticateToken for the
\* token they present (malformed, badly signed, expired, revoked or of a
\* missing user), the two responses are the same in status and message.
C13_Step ==
    (CredentialRefused(last) /\ CredentialRefused(last')) => last'.res = last.res
\* C13: that, of every step.
C13_ValidationFailuresIndistinguishable == [][C13_Step]_vars

\* C14: every response of authenticateToken (missing, invalid, expired or
\* revoked credential) has status 401, and status 403 comes only from
\* requireAdmin or authorizeResourceAccess, on an authenticated request.
C14_UnauthenticatedIs401 ==
    /\ last.res.stage = "authenticateToken" => last.res.status = 401
    /\ last.res.status = 403 => last.res.stage \in {"requireAdmin", "authorizeResourceAccess"}


(***************************************************************************)
(* SpecRounding: transfers and balance overrides whose numbers have a      *)
(* third decimal.  1.005 is a number whose product with 100 falls below    *)
(* the tie in IEEE arithmetic (100.49999999999999); 1000.005, 600.005 and  *)
(* 0.005 give the tie exactly.                                             *)
(***************************************************************************)
RoundingBodies ==
    { <<3, Num(100000, 5)>>, <<3, Num(100, 5)>>, <<3, Num(0, 4)>>, <<3, Num(0, 5)>>,
      <<2, Num(60000, 5)>>, <<3, Num(50000, 4)>>,
      <<3, Str(<<"0", ".", "0", "0", "0", "1">>)>>,
      <<3, Str(<<"\t", "+", "1", ".", "0", "0", "5">>)>>,
      <<3, Str(<<"5", "e", "-", "3">>)>> }
RoundingBalances == { Num(50000, 5), Num(100, 5), Num(100000, 0) }

NextRounding ==
    \/ \E token \in {AliceToken, BobToken} : \E body \in RoundingBodies :
          Send(token, body[1], body[2])
    \/ \E newBalance \in RoundingBalances : ModifyBalance(AdminToken, 2, newBalance)

SpecRounding == InitSession /\ [][NextRounding]_vars

\* A step that answers a transfer which passed every check before the funds
\* check: authenticated, amount valid, both users found, not a self-transfer.
ReachesFundsCheck(req) ==
    /\ req.kind = "send"
    /\ authenticateToken(req.token) = Pass
    /\ sendValidate(req.token.userId, req.target, req.value).error
          \in {"", "Insufficient funds"}

\* C15: 1000.005 rounds to 1000.01; and every step that answers a transfer
\* whose rounded amount is one cent more than the sender's balance answers
\* 400 Insufficient funds and leaves balances and ledger as they were.
C15_Step ==
    /\ roundedAmount(Num(100000, 5)) = 100001
    /\ (/\ last' # last
        /\ ReachesFundsCheck(last'.req)
        /\ AskedCents(last'.req) = users[SenderOf(last'.req)].balance + 1) =>
            /\ last'.res = Response(400, "Insufficient funds", "handler")
            /\ UNCHANGED <<users, transactions>>
\* C15: that, of every step.
C15_OneCentOverAfterRounding == [][C15_Step]_vars

\* C15's case: alice, with 1000.00, asked to send 1000.005 and was refused for
\* lack of funds.
C15_Witness ==
    /\ users[2].balance = 100000
    /\ last.req = AuthRequest("send", AliceToken, 3, Num(100000, 5))
    /\ last.res = Response(400, "Insufficient funds", "handler")
    /\ transactions = <<>>

\* The thousandths of a number >= 0 written with three decimals, and its
\* rounding half away from zero to 2 decimals, in cents.
Thousandths(n) == MathRound(RoundToDouble(n.neg, BigMulAdd(n.mant, 1000, 0), n.exp, FALSE))
HalfAwayCents(n) == Thousandths(n) \div 10 + (IF Thousandths(n) % 10 >= 5 THEN 1 ELSE 0)

\* C16: the amount recorded by a transfer, and the balance stored by a
\* setBalance, is the requested number rounded half away from zero to 2
\* decimals; a refusal for lack of funds compares the rounded amount.
C16_Step ==
    /\ transactions' # transactions =>
          transactions'[Len(transactions')].amount = HalfAwayCents(parseFloat(last'.req.value))
    /\ (/\ last' # last
        /\ last'.req.kind = "modifyBalance"
        /\ last'.res.status = 200) =>
            users'[findUserById(last'.req.target)].balance
               = HalfAwayCents(parseFloat(last'.req.value))
    /\ (/\ last' # last
        /\ last'.req.kind = "send"
        /\ last'.res.error = "Insufficient funds") =>
            users[SenderOf(last'.req)].balance < HalfAwayCents(parseFloat(last'.req.value))
\* C16: that, of every step.
C16_StoredValuesRoundedHalfAway == [][C16_Step]_vars

\* C17: every record of the ledger has an amount > 0.
C17_LedgerAmountsPositive ==
    \A k \in 1..Len(transactions) : transactions[k].amount > 0


\* The password policy: at least 8 characters, with an uppercase letter, a
\* lowercase letter and a digit.
PasswordPolicy(password) ==
    /\ password.t = "str"
    /\ Len(password.chars) >= 8
    /\ \E i \in 1..Len(password.chars) : password.chars[i] \in UpperCase
    /\ \E i \in 1..Len(password.chars) : password.chars[i] \in LowerCase
    /\ \E i \in 1..Len(password.chars) : password.chars[i] \in Digits
\* The username rule, for the name as it would be stored: 3 to 30 characters,
\* and no user of the store has it.
UsernameFree(username) ==
    /\ username.t = "str"
    /\ Len(username.chars) >= 3 /\ Len(username.chars) <= 30
    /\ \A i \in 1..Len(users) : users[i].username # username

\* C18: a step creates a user only with a username of 3 to 30 characters that
\* no user had, and a password that meets the policy, and the user created
\* has role user and balance 1000; a registration that reaches the handler
\* without meeting these is answered 400 and leaves the store as it was.
C18_Step ==
    /\ users' # users =>
          /\ Len(users') = Len(users) + 1
          /\ SubSeq(users', 1, Len(users)) = users
          /\ LET u == users'[Len(users')]
             IN  /\ UsernameFree(u.username)
                 /\ \E password \in {b[2] : b \in RegisterBodies} :
                       PasswordPolicy(password) /\ u.password = bcryptHash(password)
                 /\ u.role = "user"
                 /\ u.balance = 100000
    /\ (/\ last' # last
        /\ last'.req.kind = "register"
        /\ last'.res.stage = "handler"
        /\ ~(/\ UsernameFree(sanitizeInput(last'.req.username))
             /\ PasswordPolicy(last'.req.password))) =>
            /\ last'.res.status = 400
            /\ users' = users
\* C18: that, of every step.
C18_RegisterValidates == [][C18_Step]_vars


(***************************************************************************)
(* SpecAdmin: balance overrides by the admin and by alice, for present,    *)
(* missing and unknown targets, with a transfer in between.                *)
(***************************************************************************)
AdminBalances ==
    { Undefined, Str(<<"a", "b", "c">>), Str(<<"5", "a", "b", "c">>), Num(0, 0), Num(0 - 1, 0),
      Num(0 - 1, 9), Num(50000, 5), Num(100, 5), Num(MaxBalanceCents, 0),
      Num(MaxBalanceCents, 1), ThrowingObject }

NextAdmin ==
    \/ \E token \in {AdminToken, AliceToken} : \E userId \in {NoId, 2, 3, UnknownId} :
       \E newBalance \in AdminBalances : ModifyBalance(token, userId, newBalance)
    \/ Send(AliceToken, 3, Num(100, 0))

SpecAdmin == InitSession /\ [][NextAdmin]_vars

\* A number within [0, 10,000,000].
BalanceInRange(v) ==
    /\ v.t = "num"
    /\ ~Less(v, Zero(FALSE))
    /\ ~Less(Num(MaxBalanceCents, 0), v)
\* b cents is v rounded to 2 decimals (a tie may go either way): v is no
\* less than b cents less half a cent and no more than b cents and a half.
NearestCents(b, v) ==
    /\ ~Less(v, Num(b - 1, 5))
    /\ ~Less(Num(b, 5), v)
\* A step that answers a setBalance whose caller passed requireAdmin.
AdminSetsBalance == last' # last /\ last'.req.kind = "modifyBalance" /\ last'.res.stage = "handler"

\* C19: an admin's setBalance with a newBalance that is not a number within
\* [0, 10,000,000], or for a target that does not exist, fails and changes
\* nothing; otherwise it succeeds, the target's balance becomes newBalance
\* rounded to 2 decimals, every other user and the ledger stay as they were.
C19_Step ==
    AdminSetsBalance =>
        LET v == last'.req.value
            target == findUserById(last'.req.target)
        IN  IF ~BalanceInRange(v) \/ target = 0
            THEN /\ last'.res.status \in {400, 404}
                 /\ UNCHANGED <<users, transactions>>
            ELSE /\ last'.res.status = 200
                 /\ NearestCents(users'[target].balance, v)
                 /\ users' = [users EXCEPT ![target].balance = users'[target].balance]
                 /\ UNCHANGED transactions
\* C19: that, of every step.
C19_SetBalanceValidatedAndFramed == [][C19_Step]_vars

\* C20: every successful setBalance appends its entry (actor, target, old
\* value, new value, time) to the retained audit log, and no step removes an
\* entry from it.
C20_Step ==
    /\ Len(auditLog') >= Len(auditLog)
    /\ SubSeq(auditLog', 1, Len(auditLog)) = auditLog
    /\ (AdminSetsBalance /\ last'.res.status = 200) =>
          LET target == findUserById(last'.req.target)
          IN  auditLog' = Append(auditLog,
                                 [actor |-> last'.req.token.username,
                                  target |-> users[target].username,
                                  old |-> users[target].balance,
                                  new |-> users'[target].balance,
                                  at |-> now])
\* C20: that, of every step.
C20_AuditEntriesRetained == [][C20_Step]_vars


(***************************************************************************)
(* The vulnerable variant's session under way: alice and bob registered,   *)
(* then admin, alice and bob logged in, all at time 0.                     *)
(***************************************************************************)
VulnSessionUsers ==
    <<User(1, adminName, VulnAdminPassword, Num(AdminBalanceCents, 0), "admin"),
      User(2, alice, GoodPassword, Num(StartingBalanceCents, 0), "user"),
      User(3, bob, GoodPassword, Num(StartingBalanceCents, 0), "user")>>
VulnAdminToken == vulnJwtSign(VulnSessionUsers[1], 0)
VulnAliceToken == vulnJwtSign(VulnSessionUsers[2], 0)
VulnBobToken == vulnJwtSign(VulnSessionUsers[3], 0)
\* JWT_SECRET is the constant 'secret123' of the published source: anyone can
\* sign a payload of their choosing.  This one names a user that does not exist.
CraftedToken == Token("server", UnknownId, mallory, "user", 0, NoExp)

InitVulnSession ==
    /\ users = VulnSessionUsers
    /\ transactions = <<>>
    /\ invalidatedTokens = {}
    /\ rateLimitStore = [ip \in IPs |-> NoEntry]
    /\ now = 0
    /\ issued = {Issued(VulnAdminToken, 0), Issued(VulnAliceToken, 0), Issued(VulnBobToken, 0)}
    /\ inflight = [i \in Slots |-> Idle]
    /\ last = [at |-> 0,
               req |-> OpenRequest("login", "", bob, GoodPassword, Undefined),
               res |-> Response(200, "", "handler"), granted |-> VulnBobToken]
    /\ admitted = <<>>

(***************************************************************************)
(* SpecVulnWallet: the vulnerable variant's endpoints, called by alice (a  *)
(* plain user), by the admin, without a token and with a crafted token.    *)
(***************************************************************************)
VulnCallers == {VulnAliceToken, NoToken, CraftedToken, ForgedToken}
\* Bodies {recipientId, amount} of POST /api/send.
VulnSendBodies ==
    { <<3, Num(60000, 0)>>, <<2, Num(60000, 0)>>, <<UnknownId, Num(60000, 0)>>,
      <<NoId, Num(60000, 0)>>, <<3, Undefined>>, <<3, Num(0, 0)>>, <<3, Num(0 - 500, 0)>>,
      <<3, Num(99970, 0)>>, <<3, Num(30, 0)>> }
\* Bodies {userId, newBalance} of POST /api/admin/modify-balance.
VulnBalanceBodies ==
    { <<1, Num(0 - 100, 0)>>, <<3, Num(MaxBalanceCents + 100, 0)>>,
      <<UnknownId, Num(100, 0)>>, <<2, Undefined>> }

NextVulnWallet ==
    \/ \E token \in VulnCallers : \E body \in VulnBalanceBodies :
          VulnModifyBalance(token, body[1], body[2])
    \/ \E token \in VulnCallers : \E userId \in {1, UnknownId} : VulnGetUser(token, userId)
    \/ \E token \in VulnCallers : \E userId \in {1, UnknownId} : VulnGetBalance(token, userId)
    \/ \E token \in VulnCallers : VulnGetTransactions(token, 1)
    \/ \E token \in VulnCallers : VulnAdminUsers(token)
    \/ \E body \in VulnSendBodies : VulnSend(VulnAliceToken, body[1], body[2])

SpecVulnWallet == InitVulnSession /\ [][NextVulnWallet]_vars

\* C23: in the vulnerable variant a request with a valid token always reaches
\* its handler and is never answered 403, whoever the caller: a read of
\* another user's profile, balance or transactions and the list of all users
\* are answered 200, and a setBalance for an existing user is answered 200 and
\* stores the value sent, whatever it is.
C23_VulnerableOmitsAuthorization ==
    (/\ last.req.kind \in AuthenticatedKinds
     /\ vulnAuthenticateToken(last.req.token) = Pass) =>
        /\ last.res.stage = "handler"
        /\ last.res.status # 403
        /\ (last.req.kind \in {"user", "balance"} /\ findUserById(last.req.target) # 0) =>
              last.res.status = 200
        /\ last.req.kind \in {"transactions", "adminUsers"} => last.res.status = 200
        /\ (last.req.kind = "modifyBalance" /\ findUserById(last.req.target) # 0) =>
              /\ last.res.status = 200
              /\ users[findUserById(last.req.target)].balance = last.req.value

\* C23's case: alice, whose role is user, set the admin's balance to -1.00.
C23_Witness ==
    /\ last.req = AuthRequest("modifyBalance", VulnAliceToken, 1, Num(0 - 100, 0))
    /\ last.req.token.role = "user"
    /\ last.res.status = 200
    /\ users[1].balance = Num(0 - 100, 0)

(***************************************************************************)
(* SpecBoth: the process runs one of the two variants, fixed at startup:   *)
(* the secure one transfers (one of them of an amount whose conversion to  *)
(* a string throws), balance overrides, a registration and a login, the    *)
(* vulnerable one transfers, balance overrides, a registration and logins, *)
(* among them a login without a password, which bcrypt rejects.  The       *)
(* variant shows in the admin's password, which no operation changes.      *)
(***************************************************************************)
IsVulnerable == users[1].password = bcryptHash(VulnAdminPassword)
\* The users array us with every balance in cents: the vulnerable variant's
\* Numbers (here finite, of whole cents) counted in cents.
InCents(us) ==
    [i \in 1..Len(us) |->
        [us[i] EXCEPT !.balance = IF IsVulnerable THEN RoundToCents(@) ELSE @]]

\* Bodies {recipientId, amount} of the transfers alice asks for, in either variant.
BothSendBodies ==
    { <<3, Num(60000, 0)>>, <<2, Num(60000, 0)>>, <<UnknownId, Num(60000, 0)>>,
      <<NoId, Num(60000, 0)>>, <<3, Undefined>>, <<3, Num(0 - 500, 0)>> }

NextBoth ==
    \/ \E body \in BothSendBodies \cup {<<3, ThrowingObject>>} :
          ~IsVulnerable /\ Send(AliceToken, body[1], body[2])
    \/ ~IsVulnerable /\ Send(AdminToken, 2, Num(60000, 0))
    \/ \E token \in {AdminToken, BobToken} :
          ~IsVulnerable /\ ModifyBalance(token, 2, Num(50000, 5))
    \/ ~IsVulnerable /\ LedgerRegister
    \/ ~IsVulnerable /\ LedgerLogin
    \/ \E i \in Slots : ~IsVulnerable /\ Resume(i)
    \/ \E token \in {VulnAliceToken, CraftedToken} : \E body \in BothSendBodies :
          IsVulnerable /\ VulnSend(token, body[1], body[2])
    \/ IsVulnerable /\ VulnSend(VulnAdminToken, 2, Num(60000, 0))
    \/ \E token \in {VulnBobToken, NoToken} :
          IsVulnerable /\ VulnModifyBalance(token, 2, Num(0 - 100, 0))
    \/ IsVulnerable /\ VulnRegister(carol, GoodPassword, GoodEmail)
    \/ \E password \in {GoodPassword, Undefined} :
          IsVulnerable /\ VulnLogin(alice, password)
    \/ \E i \in Slots : IsVulnerable /\ VulnResume(i)

SpecBoth == (InitSession \/ InitVulnSession) /\ [][NextBoth]_vars

\* The response of the step answers a transfer with 200.  (A request repeated
\* with the same answer leaves `last` as it was.)
SendSucceeds == last'.req.kind = "send" /\ last'.res.status = 200

\* C22: in either variant, every step keeps the ledger as a prefix of the new
\* ledger (no record is changed or removed), and the ledger grows only in a
\* step that answers a transfer with 200, by exactly one record.
C22_Step ==
    /\ Len(transactions') >= Len(transactions)
    /\ SubSeq(transactions', 1, Len(transactions)) = transactions
    /\ transactions' # transactions =>
          /\ SendSucceeds
          /\ Len(transactions') = Len(transactions) + 1
\* C22: that, of every step of both variants.
C22_LedgerAppendOnly == [][C22_Step]_vars

\* C22's case: the vulnerable variant's ledger holds two records, the first
\* one as it was appended, and the last request was a transfer that failed.
C22_Witness ==
    /\ IsVulnerable
    /\ Len(transactions) = 2
    /\ transactions[1] = Transaction(2, 3, Num(60000, 0))
    /\ last.req.kind = "send"
    /\ last.res.status = 400

\* C27: in either variant, the record a transfer appends has as senderId the
\* userId of the token that made the request, and the only balance a transfer
\* lowers is that user's, whoever the caller is and whatever the body names.
C27_Step ==
    transactions' # transactions =>
        LET tx == transactions'[Len(transactions')]
            caller == last'.req.token.userId
        IN  /\ tx.senderId = caller
            /\ tx.recipientId = last'.req.target
            /\ \A i \in 1..Len(users) :
                  InCents(users')[i].balance < InCents(users)[i].balance =>
                      users[i].id = caller
C28_Step ==
    /\ (last' # last /\ last'.req.kind = "send" /\ last'.res.status # 200) =>
          UNCHANGED <<users, transactions>>
    /\ (last'.req.kind = "send" /\ users' # users) =>
          /\ last'.res.status = 200
          /\ Len(transactions') = Len(transactions) + 1
          /\ SumBalances(InCents(users')) = SumBalances(InCents(users))
StoredClaims(token) ==
    LET u == users[findUserById(token.userId)] IN [userId |-> u.id, role |-> u.role]
\* Every token a login returned names a user of the store and carries the
\* role stored for it, and requireAdmin and authorizeResourceAccess decide for
\* its claims as they would for the stored ones.
IssuedRolesCurrent ==
    \A i \in issued :
        /\ findUserById(i.token.userId) # 0
        /\ i.token.role = StoredClaims(i.token).role
        /\ requireAdmin(i.token) = requireAdmin(StoredClaims(i.token))
        /\ \A id \in NameableIds :
              authorizeResourceAccess(i.token, id)
                 = authorizeResourceAccess(StoredClaims(i.token), id)

\* C29: in either variant no step changes the role (or the id) of a stored
\* user, and in every state each token issued by a login carries the role
\* stored for its subject, so that the decisions taken from the token's
\* claims are those the store would give.
C29_Step ==
    \A i \in 1..Len(users) : users'[i].role = users[i].role /\ users'[i].id = users[i].id
\* C29: that, of every step and every state of both variants.
C29_TokenRoleIsStoredRole == []IssuedRolesCurrent /\ [][C29_Step]_vars

\* C29's case: in the vulnerable variant bob set alice's balance to -1.00 and
\* alice then logged in: her record changed, her role did not, and the token
\* she was given carries it.
C29_Witness ==
    /\ IsVulnerable
    /\ last.req.kind = "login"
    /\ last.granted = VulnAliceToken
    /\ last.granted \in IssuedTokens
    /\ users[2].balance = Num(0 - 100, 0)
    /\ users[2].role = last.granted.role


(***************************************************************************)
(* SpecEquiv: the secure variant's registrations, transfers and balance    *)
(* overrides, with values of two and of three decimals and with a username *)
(* that sanitizeInput changes.  Each of its steps is compared with what    *)
(* the vulnerable variant's handler does for the same request in the same  *)
(* store.                                                                  *)
(***************************************************************************)
EquivSendBodies ==
    { <<3, Num(60000, 0)>>, <<3, Num(2550, 0)>>, <<3, Num(99970, 0)>>, <<3, Num(30, 0)>>,
      <<3, Num(100, 5)>>, <<2, Num(60000, 0)>>, <<3, Num(0, 0)>> }
EquivBalances == { Num(25000, 0), Num(50000, 5), Num(0 - 100, 0) }

\* The session in which the third user registered as "< bob": sanitizeInput
\* trims first and deletes the < afterwards, and the name stored is " bob",
\* with the space.
SpacedBob == Str(<<" ">> \o bob.chars)
InitEquiv ==
    /\ users = [SessionUsers EXCEPT ![3].username = SpacedBob]
    /\ transactions = <<>>
    /\ invalidatedTokens = {}
    /\ rateLimitStore = [ip \in IPs |->
                            IF ip = "10.0.0.1"
                            THEN [attempts |-> 5, resetTime |-> RATE_LIMIT_WINDOW]
                            ELSE NoEntry]
    /\ now = 0
    /\ issued = {Issued(AdminToken, 0), Issued(AliceToken, 0),
                 Issued(jwtSign(users[3], 0), 0)}
    /\ inflight = [i \in Slots |-> Idle]
    /\ last = [at |-> 0,
               req |-> OpenRequest("login", "10.0.0.1", Str(<<"<">> \o SpacedBob.chars),
                                   GoodPassword, Undefined),
               res |-> Response(200, "", "handler"), granted |-> jwtSign(users[3], 0)]
    /\ admitted = <<>>

\* A registration of carol, or of " bob", the first request of its address:
\* the secure handler looks up and stores the sanitized name "bob", the
\* vulnerable one the name as sent.
EquivRegister ==
    /\ rateLimitStore["10.0.0.2"] = NoEntry
    /\ \E username \in {carol, SpacedBob} :
          Register("10.0.0.2", username, GoodPassword, GoodEmail)

NextEquiv ==
    \/ \E body \in EquivSendBodies : Send(AliceToken, body[1], body[2])
    \/ \E newBalance \in EquivBalances : ModifyBalance(AdminToken, 2, newBalance)
    \/ EquivRegister
    \/ \E i \in Slots : Resume(i)

SpecEquiv == InitEquiv /\ [][NextEquiv]_vars

\* A JSON number with at most two decimals.
TwoDecimalNumber(v) == v.t = "num" /\ v = Num(RoundToCents(v), 0)
\* The vulnerable variant's users array that corresponds to the secure one
\* us: the same users, each balance the Number of that many cents.
VulnStore(us) == [i \in 1..Len(us) |-> [us[i] EXCEPT !.balance = Num(@, 0)]]
\* The balances of a vulnerable users array, rounded to 2 decimals, in cents.
RoundedBalances(us) == [i \in 1..Len(us) |-> RoundToCents(us[i].balance)]
Balances(us) == [i \in 1..Len(us) |-> us[i].balance]

\* The secure variant accepts a registration (its handler reaches the await),
\* and the vulnerable checks accept the same body in the same store.
RegistrationMatches ==
    \A i \in Slots :
        (inflight[i] = Idle /\ inflight'[i].pc = "hash") =>
            vulnRegisterValidate(inflight'[i].req.username, inflight'[i].req.password) = Pass
\* The same, of the registrations whose username sanitizeInput leaves as it
\* is: both variants then look up the same name.
SanitizedRegistrationMatches ==
    \A i \in Slots :
        (/\ inflight[i] = Idle /\ inflight'[i].pc = "hash"
         /\ sanitizeInput(inflight'[i].req.username) = inflight'[i].req.username) =>
            vulnRegisterValidate(inflight'[i].req.username, inflight'[i].req.password) = Pass
\* The secure variant creates the user, as the vulnerable push does: the same
\* balance, and the same role.
CreationMatches ==
    \A i \in Slots :
        (inflight[i].pc = "hash" /\ inflight'[i] = Idle) =>
            LET pushed == vulnRegisterPush(inflight[i].req)[Len(users) + 1]
            IN  /\ pushed.balance = Num(users'[Len(users')].balance, 0)
                /\ pushed.role = users'[Len(users')].role
\* The secure variant applies a transfer whose amount is a number of at most
\* two decimals: the vulnerable handler accepts it in the corresponding store
\* and appends the same record.
TransferAccepted ==
    (transactions' # transactions /\ TwoDecimalNumber(last'.req.value)) =>
        LET req == last'.req
            tx == transactions'[Len(transactions')]
        IN  /\ vulnSendValidate(VulnStore(users), req.token.userId, req.target, req.value)
                  = Pass
            /\ Len(transactions') = Len(transactions) + 1
            /\ Transaction(tx.senderId, tx.recipientId, Num(tx.amount, 0))
                  = Transaction(req.token.userId, req.target, req.value)
\* The users array the vulnerable handler leaves for the transfer of the step.
VulnTransferred ==
    vulnSendBalances(VulnStore(users), SenderOf(last'.req), findUserById(last'.req.target),
                     last'.req.value)
\* ... and the vulnerable handler leaves the same balances.
TransferMatches ==
    (transactions' # transactions /\ TwoDecimalNumber(last'.req.value)) =>
        VulnTransferred = VulnStore(users')
\* ... and the vulnerable handler leaves balances that, rounded to 2 decimals,
\* are those of the secure variant.
TransferMatchesRounded ==
    (transactions' # transactions /\ TwoDecimalNumber(last'.req.value)) =>
        RoundedBalances(VulnTransferred) = Balances(users')
\* The secure variant applies a setBalance: the vulnerable handler accepts it
\* and stores the same value.
SetBalanceMatches ==
    LET req == last'.req
        target == findUserById(req.target)
    IN  /\ vulnModifyBalanceValidate(req.target) = Pass
        /\ vulnNewBalance(req.value) = Num(users'[target].balance, 0)
        /\ users' = [users EXCEPT ![target].balance = users'[target].balance]

\* C26 as stated: every registration, every transfer of a numeric 2-decimal
\* amount and every setBalance that the secure variant accepts is accepted by
\* the vulnerable variant in the same store, with the same balances and the
\* same ledger record.
C26_Step ==
    /\ RegistrationMatches
    /\ CreationMatches
    /\ TransferAccepted
    /\ TransferMatches
    /\ SetBalanceApplied => SetBalanceMatches
C26_SameEffectAsVulnerable == [][C26_Step]_vars

\* C26 amended: every registration of a username that sanitizeInput leaves
\* as it is, every transfer of a numeric 2-decimal amount and every setBalance
\* of a numeric 2-decimal value that the secure variant accepts is accepted
\* by the vulnerable variant in the same store, with the same ledger record
\* and with balances that are the same once rounded to 2 decimals; a
\* newBalance with more decimals is stored rounded by the secure variant and
\* as it is by the vulnerable one.
C26_TwoDecimalStep ==
    /\ SanitizedRegistrationMatches
    /\ CreationMatches
    /\ TransferAccepted
    /\ TransferMatchesRounded
    /\ (SetBalanceApplied /\ TwoDecimalNumber(last'.req.value)) => SetBalanceMatches
    /\ (SetBalanceApplied /\ ~TwoDecimalNumber(last'.req.value)) =>
          vulnNewBalance(last'.req.value)
             # Num(users'[findUserById(last'.req.target)].balance, 0)
C26_SameEffectOnTwoDecimalValues == [][C26_TwoDecimalStep]_vars

\* C26's case: carol registered, alice sent bob 999.70 (which left her 0.30,
\* and 0.2999999999999545 in the vulnerable variant), and the admin set
\* alice's balance to 250.00.
C26_Witness ==
    /\ Len(users) = 4
    /\ users[4].balance = StartingBalanceCents
    /\ transactions = <<Transaction(2, 3, 99970)>>
    /\ users[3].balance = 199970
    /\ last.req = AuthRequest("modifyBalance", AdminToken, 2, Num(25000, 0))
    /\ last.res.status = 200
    /\ users[2].balance = 25000


====
